---- MODULE Spec2Model ----
\* Model of the sidehelp background service worker (src/src/background.js):
\* message listener, handleMcpRequest, pingEndpoint, telemetry, and the part of
\* the options page (src/src/options.js) that writes the settings store.
EXTENDS Integers, Sequences, FiniteSets, TLC

VARIABLES store, telemetry, now, ticks, reqs, log, sidebar, profileList, popup,
          page

vars == <<store, telemetry, now, ticks, reqs, log, sidebar, profileList, popup,
          page>>

----------------------------------------------------------------------------
\* Bounds of the model.

\* Messages the listener receives in one behaviour.
MaxReq == 1
\* Clock advances in one behaviour.
MaxTicks == 2
\* Prompts sent from the sidebar in one behaviour (SideSpec).
MaxPrompts == 2
\* Messages handled at the same time (ConcSpec).
MaxConc == 2
\* Recordings made one by one after the initial ones (TelSpec).
MaxTrack == 2
\* getTelemetry messages in one behaviour (TelSpec).
MaxSnap == 2
\* Profiles in the list of the options page (ProfilesSpec).
MaxProfiles == 3
\* Runs of the content script on one page (PageSpec).
MaxRuns == 2
\* Toggles of the sidebar in one behaviour (PageSpec).
MaxToggles == 3

----------------------------------------------------------------------------
\* JavaScript values. Every value carries its type tag, so values of
\* different types can be compared.

Undefined == [t |-> "undefined"]
Null == [t |-> "null"]
Str(s) == [t |-> "string", s |-> s]
Num(n) == [t |-> "number", n |-> n]
\* An opaque structured value (a context object, a parsed JSON document).
Obj(k) == [t |-> "object", k |-> k]
Arr(a) == [t |-> "array", a |-> a]

\* ToBoolean: what `!v`, `v || d` and `v && w` test.
Truthy(v) ==
    CASE v.t = "undefined" -> FALSE
      [] v.t = "null" -> FALSE
      [] v.t = "string" -> v.s # ""
      [] v.t = "number" -> v.n # 0
      [] OTHER -> TRUE

\* `a || b`
OrElse(a, b) == IF Truthy(a) THEN a ELSE b

\* String.prototype.startsWith
StartsWith(s, p) == Len(s) >= Len(p) /\ SubSeq(s, 1, Len(p)) = p

\* String.prototype.substring(k), k counted from 0
Substring(s, k) == IF k >= Len(s) THEN "" ELSE SubSeq(s, k + 1, Len(s))

\* String.prototype.includes
Includes(s, p) ==
    \E i \in 1..(Len(s) + 1) :
        i + Len(p) - 1 <= Len(s) /\ SubSeq(s, i, i + Len(p) - 1) = p

\* An Error object: name and message.
Err(name, message) == [name |-> name, message |-> message]

\* String(err) for an Error object: "Name: message", or the name alone when
\* the message is empty.
ErrToString(err) ==
    IF err.message = "" THEN err.name ELSE err.name \o ": " \o err.message

\* The TypeError raised by `endpoint.startsWith(...)` when endpoint is not a
\* string.
StartsWithTypeError(v) ==
    IF v.t = "undefined" \/ v.t = "null"
    THEN Err("TypeError",
             "Cannot read properties of " \o v.t \o " (reading 'startsWith')")
    ELSE Err("TypeError", "endpoint.startsWith is not a function")

----------------------------------------------------------------------------
\* Values the options page form turns into stored settings.

NaN == [t |-> "NaN"]

IsSpace(c) == c = " "

\* String.prototype.trim
RECURSIVE TrimLeft(_)
TrimLeft(s) ==
    IF s # "" /\ IsSpace(SubSeq(s, 1, 1)) THEN TrimLeft(SubSeq(s, 2, Len(s))) ELSE s

RECURSIVE TrimRight(_)
TrimRight(s) ==
    IF s # "" /\ IsSpace(SubSeq(s, Len(s), Len(s)))
    THEN TrimRight(SubSeq(s, 1, Len(s) - 1))
    ELSE s

Trim(s) == TrimRight(TrimLeft(s))

DigitVal(c) ==
    CASE c = "0" -> 0 [] c = "1" -> 1 [] c = "2" -> 2 [] c = "3" -> 3
      [] c = "4" -> 4 [] c = "5" -> 5 [] c = "6" -> 6 [] c = "7" -> 7
      [] c = "8" -> 8 [] c = "9" -> 9 [] OTHER -> -1

IsDigits(s) == s # "" /\ \A i \in 1..Len(s) : DigitVal(SubSeq(s, i, i)) >= 0

RECURSIVE ParseDigits(_, _)
ParseDigits(s, acc) ==
    IF s = "" THEN acc
    ELSE ParseDigits(SubSeq(s, 2, Len(s)), acc * 10 + DigitVal(SubSeq(s, 1, 1)))

\* Number(text) on the text of a form field: surrounding blanks are dropped,
\* the empty text is 0, a signed run of digits is its value, anything else NaN.
ToNumber(s) ==
    LET u == Trim(s) IN
    IF u = "" THEN Num(0)
    ELSE IF IsDigits(u) THEN Num(ParseDigits(u, 0))
    ELSE IF SubSeq(u, 1, 1) = "-" /\ IsDigits(SubSeq(u, 2, Len(u)))
         THEN Num(0 - ParseDigits(SubSeq(u, 2, Len(u)), 0))
    ELSE NaN

\* ToBoolean extended to NaN, which is falsy.
TruthyNum(v) == v.t # "NaN" /\ Truthy(v)

----------------------------------------------------------------------------
\* The settings store (chrome.storage.sync). A key that was never written
\* reads as undefined.

StoreKeys ==
    {"localEndpoint", "remoteEndpoint", "localAuthToken", "remoteAuthToken",
     "requestTimeoutMs", "profiles"}

EmptyStore == [k \in StoreKeys |-> Undefined]

\* Default request timeout applied by the options page when the field is
\* empty or not a number.
OPTIONS_DEFAULT_TIMEOUT_MS == 30000

\* options.js save(): the settings object written to the store.
SavedSettings(form) ==
    [localEndpoint |-> Str(Trim(form.localEndpoint)),
     localAuthToken |-> Str(form.localAuthToken),
     remoteEndpoint |-> Str(Trim(form.remoteEndpoint)),
     remoteAuthToken |-> Str(form.remoteAuthToken),
     requestTimeoutMs |->
        IF TruthyNum(ToNumber(form.requestTimeoutMs))
        THEN ToNumber(form.requestTimeoutMs)
        ELSE Num(OPTIONS_DEFAULT_TIMEOUT_MS),
     profiles |-> Arr(form.profiles)]

\* A profile as the options page builds it. Temperatures are held in tenths
\* (0.7 is 7), the model having integers only.
Profile(name, url, token, preamble, temperature) ==
    [name |-> Str(name), url |-> Str(url), auth_token |-> token,
     default_preamble |-> preamble, default_temperature |-> temperature]

ProfileX1 == Profile("X", "http://x1", Str("tx"), Str("be brief"), Num(7))
ProfileX2 == Profile("X", "http://x2", Str(""), Str(""), Num(0))
ProfileE == Profile("E", "", Undefined, Undefined, Undefined)

\* The form contents the user saves.
FormChoices ==
    {[localEndpoint |-> " http://l ", localAuthToken |-> "tl",
      remoteEndpoint |-> "", remoteAuthToken |-> "",
      requestTimeoutMs |-> "50",
      profiles |-> <<ProfileX1, ProfileX2, ProfileE>>],
     [localEndpoint |-> "", localAuthToken |-> "",
      remoteEndpoint |-> "http://r", remoteAuthToken |-> "tr",
      requestTimeoutMs |-> "",
      profiles |-> <<ProfileX2, ProfileX1>>]}

----------------------------------------------------------------------------
\* Telemetry (background.js).

MAX_LATENCY_SAMPLES == 100

EmptyTelemetry == [calls |-> <<>>, latencies |-> <<>>]

\* A trackCall that counts every call as a success.
trackCallAllSuccess(tel, endpoint, duration_ms, success) ==
    LET known == endpoint \in DOMAIN tel.calls
        c0 == IF known THEN tel.calls[endpoint]
              ELSE [total |-> 0, success |-> 0, failed |-> 0]
        l0 == IF known THEN tel.latencies[endpoint] ELSE <<>>
        c1 == [total |-> c0.total + 1, success |-> c0.success + 1,
               failed |-> c0.failed]
        l1 == Append(l0, duration_ms)
        l2 == IF Len(l1) > MAX_LATENCY_SAMPLES THEN Tail(l1) ELSE l1
    IN [calls |-> (endpoint :> c1) @@ tel.calls,
        latencies |-> (endpoint :> l2) @@ tel.latencies]

\* A trackCall that drops the newest sample (pop) when the window is full.
trackCallPop(tel, endpoint, duration_ms, success) ==
    LET known == endpoint \in DOMAIN tel.calls
        c0 == IF known THEN tel.calls[endpoint]
              ELSE [total |-> 0, success |-> 0, failed |-> 0]
        l0 == IF known THEN tel.latencies[endpoint] ELSE <<>>
        c1 == [total |-> c0.total + 1,
               success |-> IF success THEN c0.success + 1 ELSE c0.success,
               failed |-> IF success THEN c0.failed ELSE c0.failed + 1]
        l1 == Append(l0, duration_ms)
        l2 == IF Len(l1) > MAX_LATENCY_SAMPLES
              THEN SubSeq(l1, 1, Len(l1) - 1) ELSE l1
    IN [calls |-> (endpoint :> c1) @@ tel.calls,
        latencies |-> (endpoint :> l2) @@ tel.latencies]

\* A trackCall that keeps the durations of successful calls only.
trackCallSuccessLatency(tel, endpoint, duration_ms, success) ==
    LET known == endpoint \in DOMAIN tel.calls
        c0 == IF known THEN tel.calls[endpoint]
              ELSE [total |-> 0, success |-> 0, failed |-> 0]
        l0 == IF known THEN tel.latencies[endpoint] ELSE <<>>
        c1 == [total |-> c0.total + 1,
               success |-> IF success THEN c0.success + 1 ELSE c0.success,
               failed |-> IF success THEN c0.failed ELSE c0.failed + 1]
        l1 == IF success THEN Append(l0, duration_ms) ELSE l0
        l2 == IF Len(l1) > MAX_LATENCY_SAMPLES THEN Tail(l1) ELSE l1
    IN [calls |-> (endpoint :> c1) @@ tel.calls,
        latencies |-> (endpoint :> l2) @@ tel.latencies]

\* trackCall(endpoint, duration_ms, success) applied to telemetry value tel.
trackCall(tel, endpoint, duration_ms, success) ==
    LET known == endpoint \in DOMAIN tel.calls
        c0 == IF known THEN tel.calls[endpoint]
              ELSE [total |-> 0, success |-> 0, failed |-> 0]
        l0 == IF known THEN tel.latencies[endpoint] ELSE <<>>
        c1 == [total |-> c0.total + 1,
               success |-> IF success THEN c0.success + 1 ELSE c0.success,
               failed |-> IF success THEN c0.failed ELSE c0.failed + 1]
        l1 == Append(l0, duration_ms)
        l2 == IF Len(l1) > MAX_LATENCY_SAMPLES THEN Tail(l1) ELSE l1
    IN [calls |-> (endpoint :> c1) @@ tel.calls,
        latencies |-> (endpoint :> l2) @@ tel.latencies]

RECURSIVE SumSeq(_)
SumSeq(s) == IF s = <<>> THEN 0 ELSE Head(s) + SumSeq(Tail(s))

\* Math.floor(a / b) for a >= 0, b > 0.
FloorDiv(a, b) == a \div b

\* Math.round(a / b) for a >= 0, b > 0: halves round up.
RoundDiv(a, b) == (2 * a + b) \div (2 * b)

\* getTelemetry() applied to telemetry value tel.
getTelemetry(tel) ==
    [endpoint \in DOMAIN tel.calls |->
        LET latencies == tel.latencies[endpoint]
            avg == IF Len(latencies) > 0
                   THEN RoundDiv(SumSeq(latencies), Len(latencies))
                   ELSE 0
        IN [total |-> tel.calls[endpoint].total,
            success |-> tel.calls[endpoint].success,
            failed |-> tel.calls[endpoint].failed,
            avg_latency_ms |-> avg]]

\* A getTelemetry() that hands the stats out and starts the counters afresh.
GetTelemetryStepDraining(tel) ==
    [telemetry |-> EmptyTelemetry, stats |-> getTelemetry(tel)]

\* getTelemetry() run on telemetry value tel: the telemetry it leaves and
\* the stats it returns.
GetTelemetryStep(tel) == [telemetry |-> tel, stats |-> getTelemetry(tel)]

\* One recording as the log keeps it: the handler that made it (0 when it
\* was made outside a handler) and the arguments of trackCall.
Recording(by, endpoint, duration_ms, success) ==
    [by |-> by, endpoint |-> endpoint, duration_ms |-> duration_ms,
     success |-> success]

\* The telemetry that the recordings recs[lo..hi], made in order, leave of
\* tel; the first half is computed before the second starts from it.
RECURSIVE Replay(_, _, _, _)
Replay(tel, recs, lo, hi) ==
    IF lo > hi THEN tel
    ELSE IF lo = hi
    THEN trackCall(tel, recs[lo].endpoint, recs[lo].duration_ms,
                   recs[lo].success)
    ELSE LET mid == (lo + hi) \div 2 IN
         CHOOSE t \in {Replay(left, recs, mid + 1, hi) :
                          left \in {Replay(tel, recs, lo, mid)}} : TRUE

\* A recording made from the telemetry the handler saw when it started:
\* what recordings made in between had written is overwritten.
TrackStale(r, endpoint, duration_ms, success) ==
    /\ telemetry' = trackCall(Replay(EmptyTelemetry, log, 1, reqs[r].seen),
                              endpoint, duration_ms, success)
    /\ log' = Append(log, Recording(r, endpoint, duration_ms, success))

\* The call trackCall(endpoint, duration_ms, success) made by handler r: the
\* telemetry changes, and the log of recordings remembers the call.
Track(r, endpoint, duration_ms, success) ==
    /\ telemetry' = trackCall(telemetry, endpoint, duration_ms, success)
    /\ log' = Append(log, Recording(r, endpoint, duration_ms, success))

----------------------------------------------------------------------------
\* Endpoint resolution (background.js, inlined in handleMcpRequest and in
\* pingEndpoint).

DEFAULT_TIMEOUT_MS == 30000
PING_TIMEOUT_MS == 5000
PROFILE_PREFIX_LEN == 8

\* keys.profiles || []
ProfilesOf(keys) == IF Truthy(keys.profiles) THEN keys.profiles.a ELSE <<>>

\* Array.prototype.find(p => p.name === name), scanning from index i:
\* the first matching profile, or undefined.
RECURSIVE FindFrom(_, _, _)
FindFrom(profiles, name, i) ==
    IF i > Len(profiles) THEN Undefined
    ELSE IF profiles[i].name = Str(name) THEN profiles[i]
    ELSE FindFrom(profiles, name, i + 1)

\* A lookup that keeps the last matching profile instead of the first.
RECURSIVE FindLastFrom(_, _, _)
FindLastFrom(profiles, name, i) ==
    IF i < 1 THEN Undefined
    ELSE IF profiles[i].name = Str(name) THEN profiles[i]
    ELSE FindLastFrom(profiles, name, i - 1)

FindLastProfile(profiles, name) == FindLastFrom(profiles, name, Len(profiles))

\* A lookup that compares names without regard to case.
LowerChar(c) == CASE c = "X" -> "x" [] c = "E" -> "e" [] OTHER -> c

RECURSIVE Lower(_)
Lower(s) ==
    IF s = "" THEN "" ELSE LowerChar(SubSeq(s, 1, 1)) \o Lower(SubSeq(s, 2, Len(s)))

RECURSIVE FindIgnoreCaseFrom(_, _, _)
FindIgnoreCaseFrom(profiles, name, i) ==
    IF i > Len(profiles) THEN Undefined
    ELSE IF Lower(profiles[i].name.s) = Lower(name) THEN profiles[i]
    ELSE FindIgnoreCaseFrom(profiles, name, i + 1)

FindProfileIgnoreCase(profiles, name) == FindIgnoreCaseFrom(profiles, name, 1)

FindProfile(profiles, name) == FindFrom(profiles, name, 1)

\* Resolution in handleMcpRequest for a string endpoint: url, token,
\* preamble and temperature, or the resolution error.
McpResolve(endpoint, keys) ==
    IF StartsWith(endpoint, "profile:")
    THEN LET profileName == Substring(endpoint, PROFILE_PREFIX_LEN)
             profile == FindProfile(ProfilesOf(keys), profileName)
         IN IF profile = Undefined
            THEN [error |-> Str("Profile '" \o profileName \o "' not found"),
                  url |-> Undefined, token |-> Undefined,
                  preamble |-> Undefined, temperature |-> Undefined]
            ELSE [error |-> Null,
                  url |-> profile.url, token |-> profile.auth_token,
                  preamble |-> profile.default_preamble,
                  temperature |-> profile.default_temperature]
    ELSE [error |-> Null,
          url |-> IF endpoint = "local" THEN keys.localEndpoint
                  ELSE keys.remoteEndpoint,
          token |-> IF endpoint = "local" THEN keys.localAuthToken
                    ELSE keys.remoteAuthToken,
          preamble |-> Undefined, temperature |-> Undefined]

\* A resolution for pingEndpoint that finds profiles without regard to case.
PingResolveIgnoreCase(endpoint, keys) ==
    IF StartsWith(endpoint, "profile:")
    THEN LET profileName == Substring(endpoint, PROFILE_PREFIX_LEN)
             profile == FindProfileIgnoreCase(ProfilesOf(keys), profileName)
         IN IF profile = Undefined
            THEN [error |-> Str("Profile '" \o profileName \o "' not found"),
                  url |-> Undefined, token |-> Undefined]
            ELSE [error |-> Null,
                  url |-> profile.url, token |-> profile.auth_token]
    ELSE [error |-> Null,
          url |-> IF endpoint = "local" THEN keys.localEndpoint
                  ELSE keys.remoteEndpoint,
          token |-> IF endpoint = "local" THEN keys.localAuthToken
                    ELSE keys.remoteAuthToken]

\* Resolution in pingEndpoint for a string endpoint: url and token, or the
\* resolution error.
PingResolve(endpoint, keys) ==
    IF StartsWith(endpoint, "profile:")
    THEN LET profileName == Substring(endpoint, PROFILE_PREFIX_LEN)
             profile == FindProfile(ProfilesOf(keys), profileName)
         IN IF profile = Undefined
            THEN [error |-> Str("Profile '" \o profileName \o "' not found"),
                  url |-> Undefined, token |-> Undefined]
            ELSE [error |-> Null,
                  url |-> profile.url, token |-> profile.auth_token]
    ELSE [error |-> Null,
          url |-> IF endpoint = "local" THEN keys.localEndpoint
                  ELSE keys.remoteEndpoint,
          token |-> IF endpoint = "local" THEN keys.localAuthToken
                    ELSE keys.remoteAuthToken]

\* A test that only catches a url that was never stored.
UrlIsUndefined(url) == url = Undefined

\* if (!url)
UrlMissing(url) == ~Truthy(url)

\* `<endpoint> endpoint not configured`
NotConfiguredError(endpoint) == Str(endpoint \o " endpoint not configured")

\* A timeout that ignores the stored value.
TimeoutOfAlwaysDefault(keys) == Num(DEFAULT_TIMEOUT_MS)

\* const timeoutMs = keys.requestTimeoutMs || 30000
TimeoutOf(keys) == OrElse(keys.requestTimeoutMs, Num(DEFAULT_TIMEOUT_MS))

----------------------------------------------------------------------------
\* Envelopes and requests on the wire.

\* The response envelope of handleMcpRequest.
Envelope(ok, status, endpoint, duration_ms, data, error) ==
    [ok |-> ok, status |-> status, endpoint |-> endpoint,
     duration_ms |-> duration_ms, data |-> data, error |-> error]

\* The result of pingEndpoint; a field the code leaves out reads undefined.
PingResult(ok, endpoint, duration_ms, status, error) ==
    [ok |-> ok, endpoint |-> endpoint, duration_ms |-> duration_ms,
     status |-> status, error |-> error]

\* res.ok of the fetch API.
ResOk(status) == status >= 200 /\ status <= 299

\* `HTTP ${res.status}`
HttpError(status) == Str("HTTP " \o ToString(status))

\* `Request timed out after ${timeoutMs}ms`
TimeoutError(timeoutMs) ==
    Str("Request timed out after " \o ToString(timeoutMs.n) \o "ms")

\* err.message || String(err)
ErrMessage(err) == IF err.message # "" THEN err.message ELSE ErrToString(err)

\* A header that is attached whether or not a token is set.
AuthHeaderAlways(token) ==
    Str("Bearer " \o (IF token.t = "string" THEN token.s ELSE "undefined"))

\* `Bearer ${token}` when a token is set, no Authorization header otherwise.
AuthHeader(token) ==
    IF Truthy(token) THEN Str("Bearer " \o token.s) ELSE Undefined

\* A body that leaves out a temperature that is falsy, as it does a preamble.
RequestBodyTruthyTemperature(prompt, context, preamble, temperature) ==
    [prompt |-> prompt,
     context |-> IF Truthy(context) THEN context ELSE Undefined,
     preamble |-> IF Truthy(preamble) THEN preamble ELSE Undefined,
     temperature |-> IF Truthy(temperature) THEN temperature ELSE Undefined]

\* The JSON body of the POST: prompt, and context, preamble, temperature when
\* present.
RequestBody(prompt, context, preamble, temperature) ==
    [prompt |-> prompt,
     context |-> IF Truthy(context) THEN context ELSE Undefined,
     preamble |-> IF Truthy(preamble) THEN preamble ELSE Undefined,
     temperature |-> temperature]

\* The fetch call of handleMcpRequest.
McpFetch(url, token, body) ==
    [url |-> url, method |-> "POST", contentType |-> Str("application/json"),
     authorization |-> AuthHeader(token), body |-> body]

\* The fetch call of pingEndpoint.
PingFetch(url, token) ==
    [url |-> url, method |-> "GET", contentType |-> Undefined,
     authorization |-> AuthHeader(token), body |-> Undefined]

----------------------------------------------------------------------------
\* Inputs.

\* A message as the listener receives it.
Msg(type, endpoint, prompt, context) ==
    [t |-> "object", type |-> Str(type), endpoint |-> endpoint,
     prompt |-> prompt, context |-> context]

EndpointChoices ==
    {Str("local"), Str("remote"), Str("profile:X"), Str("profile:x"),
     Str("profile:E"), Undefined, Num(5)}

PromptChoices == {Str("hi"), Str(""), Undefined, Num(7)}

McpMessages ==
    {Msg("mcpRequest", e, Str("hi"), Undefined) : e \in EndpointChoices}
    \cup {Msg("mcpRequest", Str("local"), p, Undefined) : p \in PromptChoices}
    \cup {Msg("mcpRequest", Undefined, Undefined, Undefined),
          Msg("mcpRequest", Str("profile:X"), Str("hi"), Obj("page context"))}

PingMessages ==
    {Msg("pingEndpoint", e, Undefined, Undefined) : e \in EndpointChoices}

OtherMessages ==
    {Msg("getTelemetry", Undefined, Undefined, Undefined),
     Msg("somethingElse", Str("local"), Str("hi"), Undefined),
     Null}

Messages == McpMessages \cup PingMessages \cup OtherMessages

\* What the transport can answer.
StatusChoices == {200, 299, 300, 404}

ContentTypeChoices ==
    {Null, Str("text/plain"), Str("application/json; charset=utf-8")}

\* A response body: its text, and whether the text is a JSON document.
BodyChoices ==
    {[text |-> "{\"text\":\"hi\"}", json |-> TRUE],
     [text |-> "<html>oops", json |-> FALSE]}

\* The value JSON.parse gives for a body that is a JSON document.
Parsed(body) == [t |-> "json", of |-> body.text]

TransportErrors ==
    {Err("TypeError", "Failed to fetch"), Err("TypeError", "")}

AbortError == Err("AbortError", "The user aborted a request.")

JsonSyntaxError == Err("SyntaxError", "Unexpected token < in JSON at position 0")

\* Amounts of time that pass between two events.
TickSteps == {50, 5000, 30000}

----------------------------------------------------------------------------
\* One record per received message: the state of its handler.

NoTimer == [armed |-> FALSE, deadline |-> 0, delay |-> 0]

NewReq(m, kind, pc) ==
    [msg |-> m, kind |-> kind, pc |-> pc, path |-> "none",
     startTime |-> now, keys |-> Undefined, timeoutMs |-> Undefined,
     timer |-> NoTimer, sent |-> <<>>, res |-> Undefined, body |-> Undefined,
     seen |-> Len(log),
     responses |-> <<>>]

Terminal == {"done", "rejected", "ignored"}

\* The handler of request q returns `resp` along `path`, and the listener
\* hands it to sendResponse.
Respond(q, path, resp) ==
    [q EXCEPT !.pc = "done", !.path = path,
              !.responses = Append(@, resp)]

IsType(m, type) == m.t = "object" /\ m.type = Str(type)

----------------------------------------------------------------------------
\* The sidebar of one tab (content script).

MAX_HISTORY == 20

\* What the response area shows: a notice, the response data, or an error.
Shown(kind, text) == [kind |-> kind, text |-> text]

\* history: the entries, newest first. respEl: the response area. pending:
\* the requests whose reply sendPrompt awaits. added: every entry added since
\* the history was last cleared, oldest first; answered: the replies received
\* since then; shown: the request whose reply is on display, 0 when none is.
EmptySidebar ==
    [history |-> <<>>, respEl |-> Shown("notice", ""), pending |-> {},
     added |-> <<>>, answered |-> 0, shown |-> 0]

\* { prompt, response: resp.data, endpoint, timestamp: Date.now(), context }
HistoryEntry(prompt, response, endpoint, timestamp, context) ==
    [prompt |-> prompt, response |-> response, endpoint |-> endpoint,
     timestamp |-> timestamp, context |-> context]

\* An addToHistory that appends at the end, oldest first.
addToHistoryPush(history, entry) ==
    LET h == Append(history, entry) IN
    IF Len(h) > MAX_HISTORY THEN SubSeq(h, 1, Len(h) - 1) ELSE h

\* addToHistory(entry): unshift, then pop when longer than MAX_HISTORY.
addToHistory(history, entry) ==
    LET h == <<entry>> \o history IN
    IF Len(h) > MAX_HISTORY THEN SubSeq(h, 1, Len(h) - 1) ELSE h

\* The sidebar after addToHistory(entry).
AddEntry(side, entry) ==
    [side EXCEPT !.history = addToHistory(@, entry),
                 !.added = Append(@, entry)]

\* typeof resp.data === "string" ? resp.data : JSON.stringify(resp.data, null, 2)
DataText(data) ==
    IF data.t = "string" THEN data ELSE [t |-> "stringified", of |-> data]

\* `Error: ${resp?.error || "Unknown error"}`
ErrorText(resp) ==
    IF resp # Undefined /\ Truthy(resp.error)
    THEN Str("Error: " \o resp.error.s)
    ELSE Str("Error: Unknown error")

----------------------------------------------------------------------------
\* The profile list of the options page (options.js): `let profiles = []`,
\* the variable profileList.

\* The profile addProfile() pushes when the list holds n profiles.
NewProfile(n) ==
    Profile("Profile " \o ToString(n + 1), "", Str(""), Str(""), Num(7))

\* profiles.splice(idx, 1), idx counted from 0
Splice(list, idx) ==
    [i \in 1..(Len(list) - 1) |-> IF i <= idx THEN list[i] ELSE list[i + 1]]

----------------------------------------------------------------------------
\* The popup (popup.js): what #popup-response shows, and the requests whose
\* reply sendPrompt awaits. shown: the request whose reply is on display, 0
\* when none is.

EmptyPopup == [respEl |-> Shown("notice", ""), pending |-> {}, shown |-> 0]

\* The value of a field of a reply; a field the reply lacks reads undefined.
Field(resp, name) ==
    IF name \in DOMAIN resp THEN resp[name] ELSE Undefined

\* if (resp.<name>): the field is there and truthy. ok is the one boolean
\* field of a reply.
Holds(resp, name) ==
    /\ name \in DOMAIN resp
    /\ IF name = "ok" THEN resp.ok ELSE Truthy(resp[name])

\* `${value}` in a template string.
Template(v) ==
    CASE v.t = "string" -> v.s
      [] v.t = "null" -> "null"
      [] v.t = "undefined" -> "undefined"
      [] v.t = "number" -> ToString(v.n)
      [] OTHER -> "[object Object]"

\* What the popup shows for a reply, reading the fields success, body and
\* error.
PopupReplyShown(resp) ==
    IF resp = Undefined
    THEN Shown("notice",
               "No response from background (maybe blocked by permissions).")
    ELSE IF Holds(resp, "success")
    THEN Shown("data", DataText(Field(resp, "body")))
    ELSE Shown("error", Str("Error: " \o Template(Field(resp, "error"))))

----------------------------------------------------------------------------
\* The page the content script runs in (part_001). injected:
\* window.__mcp_assistant_injected; sidebars: the aside elements appended to
\* the document; listeners: the sets of event listeners attached; collapsed:
\* the class "collapsed" of the container; glyph: the text of the toggle
\* button ("right" for the right-pointing triangle, "left" for the
\* left-pointing one); ariaHidden: the attribute of the body; runs: how often
\* the script ran; toggles: the toggle clicks so far; historyAtRun: the
\* length of the history when the script last ran.

FreshPage ==
    [injected |-> FALSE, sidebars |-> 0, listeners |-> 0, collapsed |-> FALSE,
     glyph |-> "", ariaHidden |-> "", runs |-> 0, toggles |-> 0,
     historyAtRun |-> 0]

\* The page after the script ran once.
InjectedPage ==
    [injected |-> TRUE, sidebars |-> 1, listeners |-> 1, collapsed |-> TRUE,
     glyph |-> "right", ariaHidden |-> "true", runs |-> 1, toggles |-> 0,
     historyAtRun |-> 0]

----------------------------------------------------------------------------
\* State after the service worker starts on a fresh install.

Init ==
    /\ store = EmptyStore
    /\ telemetry = EmptyTelemetry
    /\ log = <<>>
    /\ now = 0
    /\ ticks = 0
    /\ reqs = <<>>
    /\ sidebar = EmptySidebar
    /\ profileList = <<>>
    /\ popup = EmptyPopup
    /\ page = InjectedPage

\* Date.now() moves on.
Tick(d) ==
    /\ ticks < MaxTicks
    /\ now' = now + d
    /\ ticks' = ticks + 1
    /\ UNCHANGED <<store, telemetry, log, reqs, sidebar,
                 profileList, popup, page>>

\* options.js save()
OptionsSave(form) ==
    /\ store' = SavedSettings(form)
    /\ UNCHANGED <<telemetry, log, now, ticks, reqs, sidebar,
                 profileList, popup, page>>

\* options.js clearAll(), confirmed by the user
OptionsClearAll ==
    /\ store' = EmptyStore
    /\ profileList' = <<>>
    /\ UNCHANGED <<telemetry, log, now, ticks, reqs, sidebar, popup, page>>

----------------------------------------------------------------------------
\* chrome.runtime.onMessage listener (background.js 52-77).

\* A prompt check without the typeof test.
McpStartNoTypeCheck(m) ==
    IF ~Truthy(m.prompt)
    THEN Respond(NewReq(m, "mcp", "run"), "missingPrompt",
                 Envelope(FALSE, Num(0), m.endpoint, Num(0), Null,
                          Str("Missing prompt")))
    ELSE NewReq(m, "mcp", "settings")

\* handleMcpRequest up to its first await: the prompt check.
McpStart(m) ==
    IF ~Truthy(m.prompt) \/ m.prompt.t # "string"
    THEN Respond(NewReq(m, "mcp", "run"), "missingPrompt",
                 Envelope(FALSE, Num(0), m.endpoint, Num(0), Null,
                          Str("Missing prompt")))
    ELSE NewReq(m, "mcp", "settings")

\* A branch that records a dispatch rejected for its prompt as a failed call.
OnMcpRequestTrackingRejected(m, cap) ==
    /\ Len(reqs) < cap
    /\ IsType(m, "mcpRequest")
    /\ reqs' = Append(reqs, McpStart(m))
    /\ IF McpStart(m).path = "missingPrompt" /\ m.endpoint.t = "string"
       THEN /\ telemetry' = trackCall(telemetry, m.endpoint.s, 0, FALSE)
            /\ log' = Append(log, Recording(Len(reqs) + 1, m.endpoint.s, 0,
                                            FALSE))
       ELSE UNCHANGED <<telemetry, log>>
    /\ UNCHANGED <<store, now, ticks, sidebar, profileList, popup, page>>

\* The mcpRequest branch while fewer than cap messages were received.
OnMcpRequestUpTo(m, cap) ==
    /\ Len(reqs) < cap
    /\ IsType(m, "mcpRequest")
    /\ reqs' = Append(reqs, McpStart(m))
    /\ UNCHANGED <<store, telemetry, log, now, ticks, sidebar,
                 profileList, popup, page>>

OnMcpRequest(m) == OnMcpRequestUpTo(m, MaxReq)

\* The getTelemetry branch while fewer than cap messages were received.
OnGetTelemetryUpTo(m, cap) ==
    /\ Len(reqs) < cap
    /\ ~IsType(m, "mcpRequest")
    /\ IsType(m, "getTelemetry")
    /\ reqs' = Append(reqs, Respond(NewReq(m, "telemetry", "run"), "telemetry",
                                    GetTelemetryStep(telemetry).stats))
    /\ telemetry' = GetTelemetryStep(telemetry).telemetry
    /\ UNCHANGED <<store, log, now, ticks, sidebar,
                 profileList, popup, page>>

OnGetTelemetry(m) == OnGetTelemetryUpTo(m, MaxReq)

\* The pingEndpoint branch while fewer than cap messages were received.
OnPingEndpointUpTo(m, cap) ==
    /\ Len(reqs) < cap
    /\ ~IsType(m, "mcpRequest")
    /\ ~IsType(m, "getTelemetry")
    /\ IsType(m, "pingEndpoint")
    /\ reqs' = Append(reqs, NewReq(m, "ping", "settings"))
    /\ UNCHANGED <<store, telemetry, log, now, ticks, sidebar,
                 profileList, popup, page>>

OnPingEndpoint(m) == OnPingEndpointUpTo(m, MaxReq)

\* A listener that answers messages it does not know with an error envelope.
OnOtherMessageAnswering(m, cap) ==
    /\ Len(reqs) < cap
    /\ ~IsType(m, "mcpRequest")
    /\ ~IsType(m, "getTelemetry")
    /\ ~IsType(m, "pingEndpoint")
    /\ reqs' = Append(reqs, Respond(NewReq(m, "ignored", "ignored"), "none",
                     Envelope(FALSE, Num(0), Undefined, Num(0), Null,
                              Str("Unknown message type"))))
    /\ UNCHANGED <<store, telemetry, log, now, ticks, sidebar,
                 profileList, popup, page>>

\* Unknown message types ignored, while fewer than cap messages were
\* received.
OnOtherMessageUpTo(m, cap) ==
    /\ Len(reqs) < cap
    /\ ~IsType(m, "mcpRequest")
    /\ ~IsType(m, "getTelemetry")
    /\ ~IsType(m, "pingEndpoint")
    /\ reqs' = Append(reqs, NewReq(m, "ignored", "ignored"))
    /\ UNCHANGED <<store, telemetry, log, now, ticks, sidebar,
                 profileList, popup, page>>

OnOtherMessage(m) == OnOtherMessageUpTo(m, MaxReq)

----------------------------------------------------------------------------
\* handleMcpRequest (background.js 79-170).

\* setTimeout(() => controller.abort(), delay) started at the current time.
ArmTimer(delay) ==
    [armed |-> TRUE, delay |-> delay,
     deadline |-> now + (IF delay > 0 THEN delay ELSE 0)]

\* The envelope the listener's .catch builds for a raised exception.
ListenerCatchEnvelope(m, err) ==
    Envelope(FALSE, Num(0), m.endpoint, Num(0), Null, Str(ErrToString(err)))

\* A listener without the .catch: the rejection goes unhandled.
ListenerNoCatch(q, err) == [q EXCEPT !.pc = "rejected", !.path = "raised"]

\* handleMcpRequest(message).then(...).catch(...): the handler of request q
\* raised err, the listener answers with the envelope built from it.
ListenerCatch(q, err) ==
    Respond(q, "raised", ListenerCatchEnvelope(q.msg, err))

\* A catch block that reports the default timeout, not the one in force.
McpCatchEnvelopeDefaultTimeout(q, err) ==
    IF err.name = "AbortError"
    THEN Envelope(FALSE, Num(0), q.msg.endpoint, Num(now - q.startTime), Null,
                  TimeoutError(Num(DEFAULT_TIMEOUT_MS)))
    ELSE Envelope(FALSE, Num(0), q.msg.endpoint, Num(now - q.startTime), Null,
                  Str(ErrMessage(err)))

\* The envelope the catch block of handleMcpRequest builds.
McpCatchEnvelope(q, err) ==
    IF err.name = "AbortError"
    THEN Envelope(FALSE, Num(0), q.msg.endpoint, Num(now - q.startTime), Null,
                  TimeoutError(q.timeoutMs))
    ELSE Envelope(FALSE, Num(0), q.msg.endpoint, Num(now - q.startTime), Null,
                  Str(ErrMessage(err)))

\* A catch block that issues the call a second time before giving up.
McpCatchRetryOnce(r, path, err) ==
    IF Len(reqs[r].sent) = 1
    THEN /\ reqs' = [reqs EXCEPT ![r] =
                        [@ EXCEPT !.pc = "fetch", !.res = Undefined,
                                  !.sent = Append(@, @[1])]]
         /\ UNCHANGED <<telemetry, log>>
    ELSE /\ Track(r, reqs[r].msg.endpoint.s, now - reqs[r].startTime, FALSE)
         /\ reqs' = [reqs EXCEPT ![r] =
                        Respond(@, path, McpCatchEnvelope(reqs[r], err))]

\* A catch block that returns the envelope and records nothing.
McpCatchNoTrack(r, path, err) ==
    /\ UNCHANGED <<telemetry, log>>
    /\ reqs' = [reqs EXCEPT ![r] =
                   Respond(@, path, McpCatchEnvelope(reqs[r], err))]

\* The catch block of handleMcpRequest: record the failure, return the
\* envelope.
McpCatch(r, path, err) ==
    /\ Track(r, reqs[r].msg.endpoint.s, now - reqs[r].startTime, FALSE)
    /\ reqs' = [reqs EXCEPT ![r] =
                   Respond(@, path, McpCatchEnvelope(reqs[r], err))]

\* The handler after getSettings called back: resolution, and the fetch call
\* with its timer when the endpoint resolves.
McpAfterSettings(q, keys) ==
    LET m == q.msg
        q1 == [q EXCEPT !.keys = keys, !.timeoutMs = TimeoutOf(keys)]
    IN
    IF m.endpoint.t # "string"
    THEN ListenerCatch(q1, StartsWithTypeError(m.endpoint))
    ELSE
    LET found == McpResolve(m.endpoint.s, keys) IN
    IF found.error # Null
    THEN Respond(q1, "profileNotFound",
                 Envelope(FALSE, Num(0), m.endpoint, Num(0), Null, found.error))
    ELSE IF UrlMissing(found.url)
    THEN Respond(q1, "notConfigured",
                 Envelope(FALSE, Num(0), m.endpoint, Num(0), Null,
                          NotConfiguredError(m.endpoint.s)))
    ELSE [q1 EXCEPT
            !.pc = "fetch",
            !.timer = ArmTimer(q1.timeoutMs.n),
            !.sent = Append(@, McpFetch(found.url, found.token,
                        RequestBody(m.prompt, m.context, found.preamble,
                                    found.temperature)))]

\* A handler that reuses the settings the first handler read.
McpSettingsCached(r) ==
    /\ r \in DOMAIN reqs
    /\ reqs[r].kind = "mcp"
    /\ reqs[r].pc = "settings"
    /\ reqs' = [reqs EXCEPT ![r] =
                   McpAfterSettings(@, IF reqs[1].keys # Undefined
                                       THEN reqs[1].keys ELSE store)]
    /\ UNCHANGED <<store, telemetry, log, now, ticks, sidebar,
                 profileList, popup, page>>

\* A handler that writes the timeout it applied back to the store.
McpSettingsWritingBack(r) ==
    /\ r \in DOMAIN reqs
    /\ reqs[r].kind = "mcp"
    /\ reqs[r].pc = "settings"
    /\ reqs' = [reqs EXCEPT ![r] = McpAfterSettings(@, store)]
    /\ store' = [store EXCEPT !.requestTimeoutMs = TimeoutOf(store)]
    /\ UNCHANGED <<telemetry, log, now, ticks, sidebar,
                 profileList, popup, page>>

McpSettings(r) ==
    /\ r \in DOMAIN reqs
    /\ reqs[r].kind = "mcp"
    /\ reqs[r].pc = "settings"
    /\ reqs' = [reqs EXCEPT ![r] = McpAfterSettings(@, store)]
    /\ UNCHANGED <<store, telemetry, log, now, ticks, sidebar,
                 profileList, popup, page>>

\* fetch resolved with a response: the timer is cleared, the body is read.
McpFetchResolved(r, status, contentType) ==
    /\ r \in DOMAIN reqs
    /\ reqs[r].kind = "mcp"
    /\ reqs[r].pc = "fetch"
    /\ reqs' = [reqs EXCEPT ![r] =
                   [@ EXCEPT !.pc = "body",
                             !.timer = [@ EXCEPT !.armed = FALSE],
                             !.res = [status |-> status,
                                      contentType |-> contentType]]]
    /\ UNCHANGED <<store, telemetry, log, now, ticks, sidebar,
                 profileList, popup, page>>

\* fetch rejected: DNS, connection or TLS failure.
McpFetchRejected(r, err) ==
    /\ r \in DOMAIN reqs
    /\ reqs[r].kind = "mcp"
    /\ reqs[r].pc = "fetch"
    /\ McpCatch(r, "transport", err)
    /\ UNCHANGED <<store, now, ticks, sidebar,
                 profileList, popup, page>>

\* res.headers.get("content-type") || ""
ContentTypeOf(res) ==
    IF Truthy(res.contentType) THEN res.contentType.s ELSE ""

\* An envelope that reports the status text whatever the status is.
McpHttpEnvelopeAlwaysError(q, data) ==
    Envelope(ResOk(q.res.status), Num(q.res.status), q.msg.endpoint,
             Num(now - q.startTime), data, HttpError(q.res.status))

\* The envelope for a response whose body was read and decoded into data.
McpHttpEnvelope(q, data) ==
    Envelope(ResOk(q.res.status), Num(q.res.status), q.msg.endpoint,
             Num(now - q.startTime), data,
             IF ResOk(q.res.status) THEN Null ELSE HttpError(q.res.status))

\* A body read that parses every body that is a JSON document, whatever the
\* content-type says.
McpBodyReadSniffing(r, body) ==
    /\ r \in DOMAIN reqs
    /\ reqs[r].kind = "mcp"
    /\ reqs[r].pc = "body"
    /\ LET q == [reqs[r] EXCEPT !.body = body] IN
       /\ Track(r, q.msg.endpoint.s, now - q.startTime, ResOk(q.res.status))
       /\ reqs' = [reqs EXCEPT ![r] =
              Respond(q, "http",
                      McpHttpEnvelope(q, IF body.json THEN Parsed(body)
                                         ELSE Str(body.text)))]
    /\ UNCHANGED <<store, now, ticks, sidebar,
                 profileList, popup, page>>

\* res.json() or res.text() delivered the body.
McpBodyRead(r, body) ==
    /\ r \in DOMAIN reqs
    /\ reqs[r].kind = "mcp"
    /\ reqs[r].pc = "body"
    /\ LET q == [reqs[r] EXCEPT !.body = body] IN
       IF Includes(ContentTypeOf(q.res), "application/json")
       THEN IF body.json
            THEN /\ Track(r, q.msg.endpoint.s, now - q.startTime,
                          ResOk(q.res.status))
                 /\ reqs' = [reqs EXCEPT ![r] =
                        Respond(q, "http", McpHttpEnvelope(q, Parsed(body)))]
            ELSE /\ Track(r, q.msg.endpoint.s, now - q.startTime, FALSE)
                 /\ reqs' = [reqs EXCEPT ![r] =
                        Respond(q, "decode",
                                McpCatchEnvelope(q, JsonSyntaxError))]
       ELSE /\ Track(r, q.msg.endpoint.s, now - q.startTime,
                     ResOk(q.res.status))
            /\ reqs' = [reqs EXCEPT ![r] =
                   Respond(q, "http", McpHttpEnvelope(q, Str(body.text)))]
    /\ UNCHANGED <<store, now, ticks, sidebar,
                 profileList, popup, page>>

\* The connection failed while the body was being read.
McpBodyFailed(r, err) ==
    /\ r \in DOMAIN reqs
    /\ reqs[r].kind = "mcp"
    /\ reqs[r].pc = "body"
    /\ McpCatch(r, "transport", err)
    /\ UNCHANGED <<store, now, ticks, sidebar,
                 profileList, popup, page>>

----------------------------------------------------------------------------
\* pingEndpoint (background.js 175-225).

\* A catch block that builds the fields the dispatcher's catch block builds.
PingCatchResultLikeDispatcher(q, err) ==
    IF err.name = "AbortError"
    THEN PingResult(FALSE, q.msg.endpoint, Num(now - q.startTime), Num(0),
                    TimeoutError(Num(PING_TIMEOUT_MS)))
    ELSE PingResult(FALSE, q.msg.endpoint, Num(now - q.startTime), Num(0),
                    Str(ErrMessage(err)))

\* The result the catch block of pingEndpoint builds.
PingCatchResult(q, err) ==
    IF err.name = "AbortError"
    THEN PingResult(FALSE, q.msg.endpoint, Num(now - q.startTime), Undefined,
                    Str("Ping timed out"))
    ELSE PingResult(FALSE, q.msg.endpoint, Num(now - q.startTime), Undefined,
                    Str(ErrMessage(err)))

\* pingEndpoint after getSettings called back. A raised exception rejects the
\* promise; the listener attached no rejection handler, so nothing is sent.
PingAfterSettings(q, keys) ==
    LET m == q.msg
        q1 == [q EXCEPT !.keys = keys, !.timeoutMs = Num(PING_TIMEOUT_MS)]
    IN
    IF m.endpoint.t # "string"
    THEN [q1 EXCEPT !.pc = "rejected", !.path = "raised"]
    ELSE
    LET found == PingResolve(m.endpoint.s, keys) IN
    IF found.error # Null
    THEN Respond(q1, "profileNotFound",
                 PingResult(FALSE, m.endpoint, Num(0), Undefined, found.error))
    ELSE IF UrlMissing(found.url)
    THEN Respond(q1, "notConfigured",
                 PingResult(FALSE, m.endpoint, Num(0), Undefined,
                            NotConfiguredError(m.endpoint.s)))
    ELSE [q1 EXCEPT
            !.pc = "fetch",
            !.timer = ArmTimer(PING_TIMEOUT_MS),
            !.sent = Append(@, PingFetch(found.url, found.token))]

PingSettings(r) ==
    /\ r \in DOMAIN reqs
    /\ reqs[r].kind = "ping"
    /\ reqs[r].pc = "settings"
    /\ reqs' = [reqs EXCEPT ![r] = PingAfterSettings(@, store)]
    /\ UNCHANGED <<store, telemetry, log, now, ticks, sidebar,
                 profileList, popup, page>>

\* A prober that records its calls as the dispatcher does.
PingFetchResolvedTracking(r, status) ==
    /\ r \in DOMAIN reqs
    /\ reqs[r].kind = "ping"
    /\ reqs[r].pc = "fetch"
    /\ reqs' = [reqs EXCEPT ![r] =
          Respond([@ EXCEPT !.timer = [@ EXCEPT !.armed = FALSE],
                            !.res = [status |-> status, contentType |-> Null]],
                  "http",
                  PingResult(ResOk(status), @.msg.endpoint,
                             Num(now - @.startTime), Num(status),
                             IF ResOk(status) THEN Null ELSE HttpError(status)))]
    /\ Track(r, reqs[r].msg.endpoint.s, now - reqs[r].startTime, ResOk(status))
    /\ UNCHANGED <<store, now, ticks, sidebar,
                 profileList, popup, page>>

\* fetch resolved with a response: the timer is cleared, the result returned.
PingFetchResolved(r, status) ==
    /\ r \in DOMAIN reqs
    /\ reqs[r].kind = "ping"
    /\ reqs[r].pc = "fetch"
    /\ reqs' = [reqs EXCEPT ![r] =
          Respond([@ EXCEPT !.timer = [@ EXCEPT !.armed = FALSE],
                            !.res = [status |-> status, contentType |-> Null]],
                  "http",
                  PingResult(ResOk(status), @.msg.endpoint,
                             Num(now - @.startTime), Num(status),
                             IF ResOk(status) THEN Null ELSE HttpError(status)))]
    /\ UNCHANGED <<store, telemetry, log, now, ticks, sidebar,
                 profileList, popup, page>>

PingFetchRejected(r, err) ==
    /\ r \in DOMAIN reqs
    /\ reqs[r].kind = "ping"
    /\ reqs[r].pc = "fetch"
    /\ reqs' = [reqs EXCEPT ![r] =
                   Respond(@, "transport", PingCatchResult(@, err))]
    /\ UNCHANGED <<store, telemetry, log, now, ticks, sidebar,
                 profileList, popup, page>>

----------------------------------------------------------------------------
\* The request q after an abort that reaches it: its fetch, when in flight,
\* rejects with AbortError and its catch block builds the response.
Aborted(q) ==
    IF q.pc = "fetch" /\ q.kind = "mcp"
    THEN Respond(q, "timeout", McpCatchEnvelope(q, AbortError))
    ELSE IF q.pc = "fetch"
    THEN Respond(q, "timeout", PingCatchResult(q, AbortError))
    ELSE q

\* One AbortController shared by all calls: the timer of request r aborts
\* every fetch in flight.
TimerFiresShared(r) ==
    /\ r \in DOMAIN reqs
    /\ reqs[r].timer.armed
    /\ now >= reqs[r].timer.deadline
    /\ reqs' = [i \in DOMAIN reqs |->
                  IF i = r
                  THEN Aborted([reqs[i] EXCEPT !.timer = [@ EXCEPT !.armed = FALSE]])
                  ELSE Aborted(reqs[i])]
    /\ IF reqs[r].pc = "fetch" /\ reqs[r].kind = "mcp"
       THEN Track(r, reqs[r].msg.endpoint.s, now - reqs[r].startTime, FALSE)
       ELSE UNCHANGED <<telemetry, log>>
    /\ UNCHANGED <<store, now, ticks, sidebar,
                 profileList, popup, page>>

----------------------------------------------------------------------------
\* The cancellation timer of a call fires: controller.abort(). A fetch still
\* in flight rejects with AbortError and the catch block of its caller runs;
\* a call that is no longer fetching is not affected.
TimerFires(r) ==
    /\ r \in DOMAIN reqs
    /\ reqs[r].timer.armed
    /\ now >= reqs[r].timer.deadline
    /\ LET q == [reqs[r] EXCEPT !.timer = [@ EXCEPT !.armed = FALSE]] IN
       IF q.pc = "fetch" /\ q.kind = "mcp"
       THEN /\ Track(r, q.msg.endpoint.s, now - q.startTime, FALSE)
            /\ reqs' = [reqs EXCEPT ![r] =
                           Respond(q, "timeout", McpCatchEnvelope(q, AbortError))]
       ELSE IF q.pc = "fetch"
       THEN /\ reqs' = [reqs EXCEPT ![r] =
                           Respond(q, "timeout", PingCatchResult(q, AbortError))]
            /\ UNCHANGED <<telemetry, log>>
       ELSE /\ reqs' = [reqs EXCEPT ![r] = q]
            /\ UNCHANGED <<telemetry, log>>
    /\ UNCHANGED <<store, now, ticks, sidebar,
                 profileList, popup, page>>

----------------------------------------------------------------------------
\* sendPrompt (content script) and the history buttons.

\* detectGitHubContext() of the page the sidebar is on.
PageContext == Obj("page context")

\* sendPrompt(endpoint, customPrompt) with typed in the prompt box, up to its
\* await: without a prompt it shows a notice; otherwise the message goes to
\* the background, whose listener starts handleMcpRequest.
SendPrompt(endpoint, customPrompt, typed) ==
    LET prompt == IF customPrompt # "" THEN customPrompt ELSE Trim(typed)
        m == Msg("mcpRequest", Str(endpoint), Str(prompt), PageContext)
    IN
    /\ Len(reqs) < MaxPrompts
    /\ IF prompt = ""
       THEN /\ sidebar' = [sidebar EXCEPT
                             !.respEl = Shown("notice", "Please enter a prompt."),
                             !.shown = 0]
            /\ UNCHANGED reqs
       ELSE /\ reqs' = Append(reqs, McpStart(m))
            /\ sidebar' = [sidebar EXCEPT
                             !.respEl = Shown("notice", "Loading"),
                             !.pending = @ \cup {Len(reqs) + 1},
                             !.shown = 0]
    /\ UNCHANGED <<store, telemetry, log, now, ticks,
                 profileList, popup, page>>

\* sendPrompt after its await: the reply of request r arrived.
SendPromptReply(r) ==
    /\ r \in sidebar.pending
    /\ reqs[r].pc \in Terminal
    /\ LET resp == IF reqs[r].responses = <<>> THEN Undefined
                   ELSE reqs[r].responses[1]
           m == reqs[r].msg
           side == [sidebar EXCEPT !.pending = @ \ {r}, !.answered = @ + 1,
                                   !.shown = r]
       IN IF resp # Undefined /\ resp.ok
          THEN sidebar' =
                  AddEntry([side EXCEPT
                              !.respEl = Shown("data", DataText(resp.data))],
                           HistoryEntry(m.prompt.s, resp.data, m.endpoint.s,
                                        now, m.context))
          ELSE sidebar' = [side EXCEPT !.respEl = Shown("error", ErrorText(resp))]
    /\ UNCHANGED <<store, telemetry, log, now, ticks, reqs,
                 profileList, popup, page>>

\* clearHistory(): history.length = 0
ClearHistory ==
    /\ sidebar' = [sidebar EXCEPT !.history = <<>>,
                                  !.added = <<>>, !.answered = 0]
    /\ UNCHANGED <<store, telemetry, log, now, ticks, reqs,
                 profileList, popup, page>>

----------------------------------------------------------------------------
\* The profile list of the options page (options.js 145-160).

\* addProfile(), while the list holds fewer than MaxProfiles profiles.
AddProfile ==
    /\ Len(profileList) < MaxProfiles
    /\ profileList' = Append(profileList, NewProfile(Len(profileList)))
    /\ UNCHANGED <<store, telemetry, log, now, ticks, reqs, sidebar, popup,
                   page>>

\* deleteProfile(idx), confirmed by the user.
DeleteProfile(idx) ==
    /\ idx \in 0..(Len(profileList) - 1)
    /\ profileList' = Splice(profileList, idx)
    /\ UNCHANGED <<store, telemetry, log, now, ticks, reqs, sidebar, popup,
                   page>>

\* save() with the list as it is edited.
SaveProfiles(form) ==
    OptionsSave([form EXCEPT !.profiles = profileList])

\* load(): profiles = items.profiles || []
LoadProfiles ==
    /\ profileList' = ProfilesOf(store)
    /\ UNCHANGED <<store, telemetry, log, now, ticks, reqs, sidebar, popup,
                   page>>

----------------------------------------------------------------------------
\* The popup (popup.js 14-32).

\* sendPrompt(endpoint) up to the sendMessage call.
PopupSendPrompt(endpoint, typed) ==
    LET prompt == Trim(typed)
        m == Msg("mcpRequest", Str(endpoint), Str(prompt), Undefined)
    IN
    /\ Len(reqs) < MaxPrompts
    /\ IF prompt = ""
       THEN /\ popup' = [popup EXCEPT
                           !.respEl = Shown("notice", "Enter a prompt."),
                           !.shown = 0]
            /\ UNCHANGED reqs
       ELSE /\ reqs' = Append(reqs, McpStart(m))
            /\ popup' = [popup EXCEPT
                           !.respEl = Shown("notice", "Loading"),
                           !.pending = @ \cup {Len(reqs) + 1},
                           !.shown = 0]
    /\ UNCHANGED <<store, telemetry, log, now, ticks, sidebar, profileList, page>>

\* The callback of sendMessage: the reply of request r arrived.
PopupReply(r) ==
    /\ r \in popup.pending
    /\ reqs[r].pc \in Terminal
    /\ LET resp == IF reqs[r].responses = <<>> THEN Undefined
                   ELSE reqs[r].responses[1]
       IN popup' = [popup EXCEPT !.pending = @ \ {r},
                                 !.respEl = PopupReplyShown(resp),
                                 !.shown = r]
    /\ UNCHANGED <<store, telemetry, log, now, ticks, reqs, sidebar, profileList,
                   page>>

----------------------------------------------------------------------------
\* The content script on its page (part_001 6-8, 145-194, 373-378).

\* A script without the injection guard: every run appends a sidebar,
\* attaches listeners and starts with an empty history.
RunContentScriptUnguarded ==
    /\ page.runs < MaxRuns
    /\ page' = [InjectedPage EXCEPT
                  !.sidebars = page.sidebars + 1,
                  !.listeners = page.listeners + 1,
                  !.runs = page.runs + 1, !.toggles = 0,
                  !.historyAtRun = Len(sidebar.history)]
    /\ sidebar' = [sidebar EXCEPT !.history = <<>>,
                                  !.respEl = Shown("notice", ""),
                                  !.shown = 0]
    /\ UNCHANGED <<store, telemetry, log, now, ticks, reqs, profileList, popup>>

\* The script runs on the page: it returns at once where it already ran, and
\* otherwise sets the flag, appends the collapsed sidebar and attaches the
\* listeners.
RunContentScript ==
    /\ page.runs < MaxRuns
    /\ IF page.injected
       THEN /\ page' = [page EXCEPT !.runs = @ + 1,
                                     !.historyAtRun = Len(sidebar.history)]
            /\ UNCHANGED sidebar
       ELSE /\ page' = [InjectedPage EXCEPT
                          !.sidebars = page.sidebars + 1,
                          !.listeners = page.listeners + 1,
                          !.runs = page.runs + 1]
            /\ sidebar' = EmptySidebar
    /\ UNCHANGED <<store, telemetry, log, now, ticks, reqs, profileList, popup>>

\* A toggle that flips the class and the glyph, and leaves aria-hidden.
toggleClickNoAria(pg) ==
    [pg EXCEPT !.collapsed = ~pg.collapsed,
               !.glyph = IF ~pg.collapsed THEN "right" ELSE "left"]

\* The click handler of the toggle button.
toggleClick(pg) ==
    LET collapsed == ~pg.collapsed IN
    [pg EXCEPT !.collapsed = collapsed,
               !.glyph = IF collapsed THEN "right" ELSE "left",
               !.ariaHidden = IF collapsed THEN "true" ELSE "false"]

\* The user clicks the toggle button.
ToggleClick ==
    /\ page.injected
    /\ page.toggles < MaxToggles
    /\ page' = [toggleClick(page) EXCEPT !.toggles = @ + 1]
    /\ UNCHANGED <<store, telemetry, log, now, ticks, reqs, sidebar, profileList,
                   popup>>

\* String.prototype.toLowerCase for the keys pressed.
KeyLower(key) == IF key = "M" THEN "m" ELSE key

\* The keydown listener: Ctrl/Cmd+Shift+M clicks the toggle.
KeyDown(ev) ==
    /\ page.injected
    /\ page.toggles < MaxToggles
    /\ (ev.ctrlKey \/ ev.metaKey) /\ ev.shiftKey /\ KeyLower(ev.key) = "m"
    /\ page' = [toggleClick(page) EXCEPT !.toggles = @ + 1]
    /\ UNCHANGED <<store, telemetry, log, now, ticks, reqs, sidebar, profileList,
                   popup>>

\* openSidebar() of the popup: clicks the toggle of the sidebar when the
\* page has one.
PopupOpenSidebar ==
    /\ page.sidebars > 0
    /\ page.toggles < MaxToggles
    /\ page' = [toggleClick(page) EXCEPT !.toggles = @ + 1]
    /\ UNCHANGED <<store, telemetry, log, now, ticks, reqs, sidebar, profileList,
                   popup>>

----------------------------------------------------------------------------

ReqIds == 1..MaxReq

Next ==
    \/ \E d \in TickSteps : Tick(d)
    \/ \E form \in FormChoices : OptionsSave(form)
    \/ OptionsClearAll
    \/ \E m \in Messages : OnMcpRequest(m)
    \/ \E m \in Messages : OnGetTelemetry(m)
    \/ \E m \in Messages : OnPingEndpoint(m)
    \/ \E m \in Messages : OnOtherMessage(m)
    \/ \E r \in ReqIds : McpSettings(r)
    \/ \E r \in ReqIds, status \in StatusChoices,
          contentType \in ContentTypeChoices :
            McpFetchResolved(r, status, contentType)
    \/ \E r \in ReqIds, err \in TransportErrors : McpFetchRejected(r, err)
    \/ \E r \in ReqIds, body \in BodyChoices : McpBodyRead(r, body)
    \/ \E r \in ReqIds, err \in TransportErrors : McpBodyFailed(r, err)
    \/ \E r \in ReqIds : PingSettings(r)
    \/ \E r \in ReqIds, status \in StatusChoices : PingFetchResolved(r, status)
    \/ \E r \in ReqIds, err \in TransportErrors : PingFetchRejected(r, err)
    \/ \E r \in ReqIds : TimerFires(r)

Spec == Init /\ [][Next]_vars

----------------------------------------------------------------------------
\* Telemetry on its own: the service worker after a number of dispatches to
\* "local", then recordings made one at a time and getTelemetry messages.

\* Numbers of dispatches already recorded at the start.
PrefillChoices == {0, 99, 100}

\* The i-th of the initial recordings.
PrefillRecording(i) == Recording(0, "local", (i * 7) % 50, i % 3 # 0)

PrefillLog(k) == [i \in 1..k |-> PrefillRecording(i)]

TrackEndpoints == {"local", "remote"}

TrackDurations == {1, 50}

TelInit ==
    /\ store = EmptyStore
    /\ now = 0
    /\ ticks = 0
    /\ reqs = <<>>
    /\ sidebar = EmptySidebar
    /\ profileList = <<>>
    /\ popup = EmptyPopup
    /\ page = InjectedPage
    /\ \E k \in PrefillChoices :
          /\ log = PrefillLog(k)
          /\ telemetry = Replay(EmptyTelemetry, PrefillLog(k), 1, k)

\* A dispatch to endpoint that took duration_ms and ended with success:
\* the clock moved on by its duration and its outcome is recorded.
Record(endpoint, duration_ms, success) ==
    /\ ticks < MaxTrack
    /\ now' = now + duration_ms
    /\ ticks' = ticks + 1
    /\ Track(0, endpoint, duration_ms, success)
    /\ UNCHANGED <<store, reqs, sidebar,
                 profileList, popup, page>>

TelNext ==
    \/ \E endpoint \in TrackEndpoints, duration_ms \in TrackDurations,
          success \in BOOLEAN : Record(endpoint, duration_ms, success)
    \/ \E m \in OtherMessages : OnGetTelemetryUpTo(m, MaxSnap)

TelSpec == TelInit /\ [][TelNext]_vars

----------------------------------------------------------------------------
\* Vocabulary of the properties.

Indices == DOMAIN reqs

McpReqs == {r \in Indices : reqs[r].kind = "mcp"}

PingReqs == {r \in Indices : reqs[r].kind = "ping"}

\* A prompt the dispatcher accepts: a non-empty string.
GoodPrompt(p) == p.t = "string" /\ p.s # ""

\* A url that is empty or absent.
NoUrl(v) == v = Undefined \/ v = Null \/ v = Str("")

\* The handler of request r has read the settings.
HasKeys(r) == reqs[r].keys # Undefined

\* The profile list request r read (an absent list is empty).
ProfilesRead(r) ==
    IF reqs[r].keys.profiles.t = "array" THEN reqs[r].keys.profiles.a ELSE <<>>

\* The positions in the list that request r read whose profile is named name.
Matches(r, name) ==
    {i \in DOMAIN ProfilesRead(r) : ProfilesRead(r)[i].name = Str(name)}

\* Position i is the first one named name.
FirstMatch(r, name, i) ==
    i \in Matches(r, name) /\ \A j \in Matches(r, name) : i <= j

\* Request r names a profile: its endpoint is "profile:" followed by a name.
NamesProfile(r) ==
    /\ reqs[r].msg.endpoint.t = "string"
    /\ Len(reqs[r].msg.endpoint.s) >= 8
    /\ SubSeq(reqs[r].msg.endpoint.s, 1, 8) = "profile:"

ProfileNameOf(r) ==
    SubSeq(reqs[r].msg.endpoint.s, 9, Len(reqs[r].msg.endpoint.s))

----------------------------------------------------------------------------
\* C1: an mcpRequest whose prompt is empty, absent or not a string is answered
\* with ok=false and error "Missing prompt", and no network call is made
\* for it.
C1_MissingPromptRejected ==
    \A r \in McpReqs :
        ~GoodPrompt(reqs[r].msg.prompt) =>
            /\ Len(reqs[r].responses) = 1
            /\ reqs[r].responses[1].ok = FALSE
            /\ reqs[r].responses[1].error = Str("Missing prompt")
            /\ reqs[r].sent = <<>>
            /\ reqs[r].pc = "done"

\* A request with a prompt that is a number was answered.
C1_Witness ==
    \E r \in McpReqs :
        /\ reqs[r].msg.prompt = Num(7)
        /\ Len(reqs[r].responses) = 1
        /\ reqs[r].responses[1].error = Str("Missing prompt")

\* C2: every response envelope of an mcpRequest, on every path, has either
\* ok=true and error=null, or ok=false and a non-null error.
C2_OkXorError ==
    \A r \in McpReqs :
        \A i \in DOMAIN reqs[r].responses :
            LET e == reqs[r].responses[i] IN
            \/ e.ok = TRUE /\ e.error = Null
            \/ e.ok = FALSE /\ e.error.t = "string"

\* A request answered from an HTTP response with a 2xx status.
C2_Witness ==
    \E r \in McpReqs :
        /\ reqs[r].path = "http"
        /\ Len(reqs[r].responses) = 1
        /\ reqs[r].responses[1].ok = TRUE
        /\ reqs[r].responses[1].error = Null

\* C3: an mcpRequest never gets more than one response; once its handler has
\* settled it has exactly one, an envelope; and a raised exception gives an
\* envelope with ok=false, status=0, data=null and an error string.
C3_AlwaysOneEnvelope ==
    \A r \in McpReqs :
        /\ Len(reqs[r].responses) <= 1
        /\ reqs[r].pc \in Terminal =>
              /\ Len(reqs[r].responses) = 1
              /\ DOMAIN reqs[r].responses[1] =
                    {"ok", "status", "endpoint", "duration_ms", "data", "error"}
              /\ reqs[r].responses[1].ok \in BOOLEAN
        /\ reqs[r].path = "raised" =>
              /\ reqs[r].pc \in Terminal
              /\ Len(reqs[r].responses) = 1
              /\ reqs[r].responses[1].ok = FALSE
              /\ reqs[r].responses[1].status = Num(0)
              /\ reqs[r].responses[1].data = Null
              /\ reqs[r].responses[1].error.t = "string"
              /\ reqs[r].responses[1].error.s # ""

\* A request with a good prompt and no endpoint was answered after its
\* handler raised.
C3_Witness ==
    \E r \in McpReqs :
        /\ reqs[r].msg.endpoint = Undefined
        /\ GoodPrompt(reqs[r].msg.prompt)
        /\ reqs[r].path = "raised"
        /\ Len(reqs[r].responses) = 1

\* C4: every pingEndpoint message whose handler has settled was answered with
\* exactly one result, with a non-null error when ok=false.
C4_PingAlwaysAnswered ==
    \A r \in PingReqs :
        reqs[r].pc \in Terminal =>
            /\ Len(reqs[r].responses) = 1
            /\ reqs[r].responses[1].ok = FALSE =>
                  reqs[r].responses[1].error.t = "string"

\* C5: a dispatch ended by its timer is answered with ok=false, status=0,
\* data=null and "Request timed out after <t>ms", t being the delay its
\* timer was started with; the timer did not fire early.
C5_TimeoutEnvelope ==
    \A r \in McpReqs :
        reqs[r].path = "timeout" =>
            /\ Len(reqs[r].responses) = 1
            /\ reqs[r].responses[1].ok = FALSE
            /\ reqs[r].responses[1].status = Num(0)
            /\ reqs[r].responses[1].data = Null
            /\ reqs[r].responses[1].error =
                  Str("Request timed out after "
                      \o ToString(reqs[r].timer.delay) \o "ms")
            /\ reqs[r].timer.delay =
                  (IF reqs[r].keys.requestTimeoutMs = Undefined
                   THEN 30000 ELSE reqs[r].keys.requestTimeoutMs.n)
            /\ reqs[r].responses[1].duration_ms.n >= reqs[r].timer.delay

\* A dispatch under a stored timeout of 50 ms timed out.
C5_Witness ==
    \E r \in McpReqs :
        /\ reqs[r].path = "timeout"
        /\ reqs[r].keys.requestTimeoutMs = Num(50)
        /\ reqs[r].responses[1].error = Str("Request timed out after 50ms")

\* C6: when a response with status s was received and its body read, the
\* envelope has status=s, ok = (200 <= s <= 299), and error null when ok,
\* "HTTP <s>" otherwise.
C6_HttpStatusClassified ==
    \A r \in McpReqs :
        (reqs[r].pc = "done" /\ reqs[r].body # Undefined) =>
            LET st == reqs[r].res.status
                e == reqs[r].responses[1]
            IN /\ e.status = Num(st)
               /\ e.ok = (200 <= st /\ st <= 299)
               /\ e.error = IF e.ok THEN Null ELSE Str("HTTP " \o ToString(st))

\* C7: when the response declares JSON and the body is no JSON document, the
\* envelope is still the one the status gives, with the raw body text as
\* data, and telemetry counts the call by the status.
C7_DecodeFailureFallsBack ==
    \A r \in McpReqs :
        (/\ reqs[r].pc = "done"
         /\ reqs[r].body # Undefined
         /\ reqs[r].res.contentType = Str("application/json; charset=utf-8")
         /\ ~reqs[r].body.json) =>
            LET st == reqs[r].res.status
                e == reqs[r].responses[1]
                name == reqs[r].msg.endpoint.s
            IN /\ e.status = Num(st)
               /\ e.ok = (200 <= st /\ st <= 299)
               /\ e.data = Str(reqs[r].body.text)
               /\ e.ok => telemetry.calls[name].success >= 1

\* The url the claim's three cases give request r: the stored local url, the
\* stored remote url, or the url of the first profile with the name.
C8_UrlOf(r) ==
    LET e == reqs[r].msg.endpoint.s IN
    IF e = "local" THEN {reqs[r].keys.localEndpoint}
    ELSE IF e = "remote" THEN {reqs[r].keys.remoteEndpoint}
    ELSE IF NamesProfile(r)
    THEN {ProfilesRead(r)[i].url :
             i \in {j \in Matches(r, ProfileNameOf(r)) :
                       FirstMatch(r, ProfileNameOf(r), j)}}
    ELSE {}

\* C8: a dispatch with a good prompt whose endpoint (local, remote, or an
\* existing profile) has an empty or absent url is answered with ok=false and
\* "<endpoint> endpoint not configured", and makes no network call.
C8_NotConfigured ==
    \A r \in McpReqs :
        (/\ GoodPrompt(reqs[r].msg.prompt)
         /\ reqs[r].msg.endpoint.t = "string"
         /\ HasKeys(r)
         /\ \E u \in C8_UrlOf(r) : NoUrl(u)) =>
            /\ reqs[r].pc = "done"
            /\ Len(reqs[r].responses) = 1
            /\ reqs[r].responses[1].ok = FALSE
            /\ reqs[r].responses[1].error =
                  Str(reqs[r].msg.endpoint.s \o " endpoint not configured")
            /\ reqs[r].sent = <<>>

\* A dispatch to "local" was rejected while the stored local url is the empty
\* string.
C8_Witness ==
    \E r \in McpReqs :
        /\ reqs[r].msg.endpoint = Str("local")
        /\ HasKeys(r)
        /\ reqs[r].keys.localEndpoint = Str("")
        /\ Len(reqs[r].responses) = 1
        /\ reqs[r].responses[1].error = Str("local endpoint not configured")

\* C9: a dispatch with a good prompt to "profile:X", when no stored profile
\* is named exactly X, is answered with ok=false and "Profile 'X' not found",
\* and makes no network call.
C9_ProfileNotFound ==
    \A r \in McpReqs :
        (/\ GoodPrompt(reqs[r].msg.prompt)
         /\ NamesProfile(r)
         /\ HasKeys(r)
         /\ Matches(r, ProfileNameOf(r)) = {}) =>
            /\ reqs[r].pc = "done"
            /\ Len(reqs[r].responses) = 1
            /\ reqs[r].responses[1].ok = FALSE
            /\ reqs[r].responses[1].error =
                  Str("Profile '" \o ProfileNameOf(r) \o "' not found")
            /\ reqs[r].sent = <<>>

\* A dispatch to "profile:x" was rejected while a profile named "X" is
\* stored.
C9_Witness ==
    \E r \in McpReqs :
        /\ reqs[r].msg.endpoint = Str("profile:x")
        /\ HasKeys(r)
        /\ Matches(r, "X") # {}
        /\ Len(reqs[r].responses) = 1
        /\ reqs[r].responses[1].error = Str("Profile 'x' not found")

\* The Authorization header a token gives.
C10_Bearer(token) ==
    IF token.t = "string" /\ token.s # "" THEN Str("Bearer " \o token.s)
    ELSE Undefined

\* C10: a dispatch or a ping to "profile:<name>" that made its network call
\* used the url and token of the first profile with that name in the list it
\* read, and a dispatch also its preamble and temperature.
C10_FirstDuplicateWins ==
    \A r \in McpReqs \cup PingReqs :
        (NamesProfile(r) /\ reqs[r].sent # <<>>) =>
            \E i \in DOMAIN ProfilesRead(r) :
                LET p == ProfilesRead(r)[i]
                    call == reqs[r].sent[1]
                IN /\ FirstMatch(r, ProfileNameOf(r), i)
                   /\ call.url = p.url
                   /\ call.authorization = C10_Bearer(p.auth_token)
                   /\ reqs[r].kind = "mcp" =>
                         /\ call.body.temperature = p.default_temperature
                         /\ call.body.preamble =
                               (IF p.default_preamble.t = "string"
                                   /\ p.default_preamble.s # ""
                                THEN p.default_preamble ELSE Undefined)

\* A dispatch to "profile:X" made its network call while two profiles named
\* "X" with different urls are stored.
C10_Witness ==
    \E r \in McpReqs :
        /\ reqs[r].msg.endpoint = Str("profile:X")
        /\ reqs[r].sent # <<>>
        /\ Cardinality(Matches(r, "X")) >= 2
        /\ \E i, j \in Matches(r, "X") :
              ProfilesRead(r)[i].url # ProfilesRead(r)[j].url

----------------------------------------------------------------------------
\* Several messages in flight at once: the options were saved with a local
\* endpoint and a 50 ms timeout, then dispatches and probes overlap.

ConcForm ==
    [localEndpoint |-> " http://l ", localAuthToken |-> "tl",
     remoteEndpoint |-> "", remoteAuthToken |-> "",
     requestTimeoutMs |-> "50",
     profiles |-> <<ProfileX1, ProfileX2, ProfileE>>]

ConcMessages ==
    {Msg("mcpRequest", Str("local"), Str("hi"), Undefined),
     Msg("pingEndpoint", Str("local"), Undefined, Undefined),
     Msg("pingEndpoint", Str("remote"), Undefined, Undefined),
     Msg("somethingElse", Str("local"), Str("hi"), Undefined),
     Null}

ConcStatusChoices == {200, 404}

ConcSteps == {50, 5000}

ConcErrors == {Err("TypeError", "Failed to fetch")}

ConcBodies == {[text |-> "pong", json |-> FALSE]}

ConcReqIds == 1..MaxConc

ConcInit ==
    /\ store = SavedSettings(ConcForm)
    /\ telemetry = EmptyTelemetry
    /\ log = <<>>
    /\ now = 0
    /\ ticks = 0
    /\ reqs = <<>>
    /\ sidebar = EmptySidebar
    /\ profileList = <<>>
    /\ popup = EmptyPopup
    /\ page = InjectedPage

ConcNext ==
    \/ \E d \in ConcSteps : Tick(d)
    \/ \E m \in ConcMessages : OnMcpRequestUpTo(m, MaxConc)
    \/ \E m \in ConcMessages : OnPingEndpointUpTo(m, MaxConc)
    \/ \E m \in ConcMessages : OnOtherMessageUpTo(m, MaxConc)
    \/ \E r \in ConcReqIds : McpSettings(r)
    \/ \E r \in ConcReqIds, status \in ConcStatusChoices :
            McpFetchResolved(r, status, Str("text/plain"))
    \/ \E r \in ConcReqIds, err \in ConcErrors : McpFetchRejected(r, err)
    \/ \E r \in ConcReqIds, body \in ConcBodies : McpBodyRead(r, body)
    \/ \E r \in ConcReqIds, err \in ConcErrors : McpBodyFailed(r, err)
    \/ \E r \in ConcReqIds : PingSettings(r)
    \/ \E r \in ConcReqIds, status \in ConcStatusChoices :
            PingFetchResolved(r, status)
    \/ \E r \in ConcReqIds, err \in ConcErrors : PingFetchRejected(r, err)
    \/ \E r \in ConcReqIds : TimerFires(r)

ConcSpec == ConcInit /\ [][ConcNext]_vars

----------------------------------------------------------------------------
\* Dispatches to "local" that overlap, after 0 or 99 earlier dispatches: the
\* only state they share is telemetry.

OverlapMessages == {Msg("mcpRequest", Str("local"), Str("hi"), Undefined)}

OverlapSteps == {50}

OverlapInit ==
    /\ store = SavedSettings(ConcForm)
    /\ now = 0
    /\ ticks = 0
    /\ reqs = <<>>
    /\ sidebar = EmptySidebar
    /\ profileList = <<>>
    /\ popup = EmptyPopup
    /\ page = InjectedPage
    /\ \E k \in {0, 99} :
          /\ log = PrefillLog(k)
          /\ telemetry = Replay(EmptyTelemetry, PrefillLog(k), 1, k)

OverlapNext ==
    \/ \E d \in OverlapSteps : Tick(d)
    \/ \E m \in OverlapMessages : OnMcpRequestUpTo(m, MaxConc)
    \/ \E r \in ConcReqIds : McpSettings(r)
    \/ \E r \in ConcReqIds, status \in ConcStatusChoices :
            McpFetchResolved(r, status, Str("text/plain"))
    \/ \E r \in ConcReqIds, err \in ConcErrors : McpFetchRejected(r, err)
    \/ \E r \in ConcReqIds, body \in ConcBodies : McpBodyRead(r, body)
    \/ \E r \in ConcReqIds, err \in ConcErrors : McpBodyFailed(r, err)
    \/ \E r \in ConcReqIds : TimerFires(r)

OverlapSpec == OverlapInit /\ [][OverlapNext]_vars

----------------------------------------------------------------------------
\* The options page saves and clears the settings between and during
\* dispatches and probes; no time passes.

SettingsMessages ==
    {Msg("mcpRequest", Str("local"), Str("hi"), Undefined),
     Msg("mcpRequest", Str("profile:X"), Str("hi"), Undefined),
     Msg("pingEndpoint", Str("remote"), Undefined, Undefined),
     Msg("pingEndpoint", Str("profile:X"), Undefined, Undefined)}

SettingsInit ==
    /\ store = EmptyStore
    /\ telemetry = EmptyTelemetry
    /\ log = <<>>
    /\ now = 0
    /\ ticks = 0
    /\ reqs = <<>>
    /\ sidebar = EmptySidebar
    /\ profileList = <<>>
    /\ popup = EmptyPopup
    /\ page = InjectedPage

SettingsNext ==
    \/ \E form \in FormChoices : OptionsSave(form)
    \/ OptionsClearAll
    \/ \E m \in SettingsMessages : OnMcpRequestUpTo(m, MaxConc)
    \/ \E m \in SettingsMessages : OnPingEndpointUpTo(m, MaxConc)
    \/ \E r \in ConcReqIds : McpSettings(r)
    \/ \E r \in ConcReqIds : McpFetchResolved(r, 200, Str("text/plain"))
    \/ \E r \in ConcReqIds, err \in ConcErrors : McpFetchRejected(r, err)
    \/ \E r \in ConcReqIds, body \in ConcBodies : McpBodyRead(r, body)
    \/ \E r \in ConcReqIds : PingSettings(r)
    \/ \E r \in ConcReqIds : PingFetchResolved(r, 200)
    \/ \E r \in ConcReqIds, err \in ConcErrors : PingFetchRejected(r, err)

SettingsSpec == SettingsInit /\ [][SettingsNext]_vars

----------------------------------------------------------------------------
\* The sidebar of a tab that already holds 0, 19 or 20 history entries sends
\* prompts to the background, which has a local endpoint and no remote one.

\* The i-th of the entries already in the history.
OlderEntry(i) ==
    HistoryEntry("old", Str(ToString(i)), "local", 0, PageContext)

\* history after the entries 1..k were added in order: newest first.
OlderHistory(k) == [i \in 1..k |-> OlderEntry(k + 1 - i)]

SideEndpoints == {"local", "remote"}

\* The prompts of the quick-action buttons.
SideQuickPrompts == {"Summarize this pull request"}

\* What the prompt box holds.
SideTyped == {"", " hi ", "yo"}

SideInit ==
    /\ store = SavedSettings(ConcForm)
    /\ telemetry = EmptyTelemetry
    /\ log = <<>>
    /\ now = 0
    /\ ticks = 0
    /\ reqs = <<>>
    /\ \E k \in {0, 19, 20} :
          sidebar = [EmptySidebar EXCEPT
                       !.history = OlderHistory(k),
                       !.added = [i \in 1..k |-> OlderEntry(i)],
                       !.answered = k]
    /\ profileList = <<>>
    /\ popup = EmptyPopup
    /\ page = InjectedPage

SideReqIds == 1..MaxPrompts

SideNext ==
    \/ \E endpoint \in SideEndpoints, typed \in SideTyped :
            SendPrompt(endpoint, "", typed)
    \/ \E custom \in SideQuickPrompts : SendPrompt("local", custom, "")
    \/ \E r \in SideReqIds : McpSettings(r)
    \/ \E r \in SideReqIds, status \in ConcStatusChoices :
            McpFetchResolved(r, status, Str("text/plain"))
    \/ \E r \in SideReqIds, err \in ConcErrors : McpFetchRejected(r, err)
    \/ \E r \in SideReqIds, body \in ConcBodies : McpBodyRead(r, body)
    \/ \E r \in SideReqIds : SendPromptReply(r)
    \/ ClearHistory

SideSpec == SideInit /\ [][SideNext]_vars

----------------------------------------------------------------------------
\* Progress: time passes and a timer that is due fires, the settings store
\* calls back; the network may stay silent for ever.

\* The deadlines of the timers that are running and not yet due.
Pending == {reqs[r].timer.deadline :
               r \in {i \in DOMAIN reqs : /\ reqs[i].timer.armed
                                          /\ reqs[i].timer.deadline > now}}

\* Time passes until the next timer is due.
TimePasses ==
    /\ Pending # {}
    /\ now' = CHOOSE d \in Pending : \A o \in Pending : d <= o
    /\ UNCHANGED <<store, telemetry, log, ticks, reqs, sidebar,
                 profileList, popup, page>>

LiveNext ==
    \/ TimePasses
    \/ \E m \in ConcMessages : OnMcpRequestUpTo(m, MaxConc)
    \/ \E m \in ConcMessages : OnPingEndpointUpTo(m, MaxConc)
    \/ \E r \in ConcReqIds : McpSettings(r)
    \/ \E r \in ConcReqIds, status \in ConcStatusChoices :
            McpFetchResolved(r, status, Str("text/plain"))
    \/ \E r \in ConcReqIds, err \in ConcErrors : McpFetchRejected(r, err)
    \/ \E r \in ConcReqIds, body \in ConcBodies : McpBodyRead(r, body)
    \/ \E r \in ConcReqIds, err \in ConcErrors : McpBodyFailed(r, err)
    \/ \E r \in ConcReqIds : PingSettings(r)
    \/ \E r \in ConcReqIds, status \in ConcStatusChoices :
            PingFetchResolved(r, status)
    \/ \E r \in ConcReqIds, err \in ConcErrors : PingFetchRejected(r, err)
    \/ \E r \in ConcReqIds : TimerFires(r)

\* The runtime runs due timers and storage callbacks; nothing makes a server
\* answer.
LiveFairness ==
    /\ WF_vars(TimePasses)
    /\ \A r \in ConcReqIds :
          /\ WF_vars(TimerFires(r))
          /\ WF_vars(McpSettings(r))
          /\ WF_vars(PingSettings(r))

LiveSpec == ConcInit /\ [][LiveNext]_vars /\ LiveFairness

----------------------------------------------------------------------------
\* Vocabulary of the telemetry properties.

\* The recordings of the log made for endpoint e, in order.
RecordingsFor(e) == SelectSeq(log, LAMBDA x : x.endpoint = e)

\* The endpoints the log has recordings for.
Recorded == {log[i].endpoint : i \in DOMAIN log}

\* How many recordings for e had the success flag ok.
CountFor(e, ok) ==
    Cardinality({i \in DOMAIN log : log[i].endpoint = e /\ log[i].success = ok})

Min(a, b) == IF a <= b THEN a ELSE b

\* The durations of the last n recordings for e, in order.
LastDurations(e, n) ==
    LET recs == RecordingsFor(e) IN
    [i \in 1..n |-> recs[Len(recs) - n + i].duration_ms]

\* C11: after N recordings with success=true and M with success=false for
\* an endpoint, its snapshot entry has total=N+M, success=N, failed=M,
\* whatever was recorded for other endpoints; an endpoint has an entry exactly
\* when something was recorded for it.
C11_CountersMatchRecordings ==
    /\ DOMAIN getTelemetry(telemetry) = Recorded
    /\ \A e \in Recorded :
          LET entry == getTelemetry(telemetry)[e] IN
          /\ entry.success = CountFor(e, TRUE)
          /\ entry.failed = CountFor(e, FALSE)
          /\ entry.total = CountFor(e, TRUE) + CountFor(e, FALSE)

\* Successes and failures were recorded for "local", and something for
\* "remote".
C11_Witness ==
    /\ CountFor("local", TRUE) >= 2
    /\ CountFor("local", FALSE) >= 2
    /\ CountFor("remote", FALSE) >= 1
    /\ getTelemetry(telemetry)["local"].failed = CountFor("local", FALSE)

\* C12: the latency window of each endpoint never holds more than 100
\* samples, and after k recordings for the endpoint it is the durations of
\* the last min(k, 100) of them, in arrival order.
C12_WindowIsLastHundred ==
    /\ DOMAIN telemetry.latencies = Recorded
    /\ \A e \in Recorded :
          /\ Len(telemetry.latencies[e]) <= 100
          /\ telemetry.latencies[e] =
                LastDurations(e, Min(Len(RecordingsFor(e)), 100))

\* 102 recordings were made for "local": the window holds 100 and the two
\* oldest are gone.
C12_Witness ==
    /\ Len(RecordingsFor("local")) = 102
    /\ Len(telemetry.latencies["local"]) = 100
    /\ telemetry.latencies["local"][1] = RecordingsFor("local")[3].duration_ms

\* The snapshot requests answered so far.
TelemetryReqs == {r \in Indices : reqs[r].kind = "telemetry"}

\* The durations the window of e should hold: those of its last 100
\* recordings, or of all when there are fewer.
WindowOf(e) == LastDurations(e, Min(Len(RecordingsFor(e)), 100))

\* C13 as stated: the reported average is the arithmetic mean of the window,
\* i.e. average * (number of samples) = sum of the samples.
C13_AverageIsMean ==
    \A e \in Recorded :
        getTelemetry(telemetry)[e].avg_latency_ms * Len(WindowOf(e))
            = SumSeq(WindowOf(e))

\* C13 (amended): the reported average is the arithmetic mean of the window
\* rounded to the nearest integer, halves upwards: it is within one half of
\* the mean; every endpoint with an entry has at least one sample, so the
\* average of an empty window is never reported.
C13_AverageIsRoundedMean ==
    \A e \in Recorded :
        LET avg == getTelemetry(telemetry)[e].avg_latency_ms
            n == Len(WindowOf(e))
            sum == SumSeq(WindowOf(e))
        IN /\ n > 0
           /\ 2 * sum - n < 2 * n * avg
           /\ 2 * n * avg <= 2 * sum + n

\* The window of "remote" is <<1, 50>>: its mean is 25.5 and 26 is reported.
C13_Witness ==
    /\ "remote" \in Recorded
    /\ WindowOf("remote") = <<1, 50>>
    /\ getTelemetry(telemetry)["remote"].avg_latency_ms = 26

\* C14: a step that answers a getTelemetry message leaves counters and
\* latency windows as they were, and two getTelemetry messages answered with
\* no recording in between got equal snapshots.
C14_SnapshotIsPure ==
    [][/\ (Len(reqs') > Len(reqs) /\ reqs'[Len(reqs')].kind = "telemetry")
            => telemetry' = telemetry
       /\ \A i, j \in DOMAIN reqs' :
            (/\ reqs'[i].kind = "telemetry"
             /\ reqs'[j].kind = "telemetry"
             /\ reqs'[i].seen = reqs'[j].seen)
            => reqs'[i].responses = reqs'[j].responses]_vars

\* Two snapshots were taken after the same 101 recordings, and telemetry
\* still holds them.
C14_Witness ==
    /\ Len(log) >= 101
    /\ \E i, j \in TelemetryReqs :
          /\ i # j
          /\ reqs[i].seen = Len(log)
          /\ reqs[j].seen = Len(log)
          /\ Len(reqs[i].responses) = 1
          /\ reqs[i].responses[1]["local"].total = 101
    /\ telemetry.calls["local"].total = 101

----------------------------------------------------------------------------
\* Vocabulary of the dispatch and probe properties.

\* The recordings request r made.
RecordingsBy(r) == {i \in DOMAIN log : log[i].by = r}

\* Request r passes the pre-flight checks: a good prompt, and an endpoint
\* that resolves, in the settings it read, to a url that is not empty.
PassesPreflight(r) ==
    /\ GoodPrompt(reqs[r].msg.prompt)
    /\ reqs[r].msg.endpoint.t = "string"
    /\ HasKeys(r)
    /\ \E u \in C8_UrlOf(r) : ~NoUrl(u)

\* A message of none of the three known types, or no message at all.
UnknownMessage(m) ==
    \/ m = Null
    \/ m = Undefined
    \/ m.type \notin {Str("mcpRequest"), Str("getTelemetry"), Str("pingEndpoint")}

\* Request r has just been touched by the step: it is new or it changed.
Touched(r) == r \notin DOMAIN reqs \/ reqs'[r] # reqs[r]

\* The ok, status and error fields of a response.
Classification(resp) ==
    [ok |-> resp.ok, status |-> resp.status, error |-> resp.error]

\* C15: no step of a probe changes telemetry, whatever its outcome (resolution
\* error, HTTP response, timeout, transport failure): counters and latency
\* windows stay as they are, and no recording is ever made by a probe.
C15_PingLeavesTelemetry ==
    [][/\ \A r \in DOMAIN reqs' :
            (reqs'[r].kind = "ping" /\ Touched(r))
                => (telemetry' = telemetry /\ log' = log)
       /\ \A i \in DOMAIN log' : reqs'[log'[i].by].kind = "mcp"]_vars

\* A probe and a dispatch were both answered from HTTP responses: telemetry
\* holds the one recording of the dispatch and nothing else.
C15_Witness ==
    /\ \E r \in PingReqs : reqs[r].path = "http" /\ reqs[r].pc = "done"
    /\ \E r \in McpReqs : reqs[r].path = "http" /\ reqs[r].pc = "done"
    /\ Len(log) = 1
    /\ DOMAIN telemetry.calls = {"local"}
    /\ telemetry.calls["local"].total = 1

\* C16 as stated: for an HTTP response, a transport failure or a timeout, a
\* probe's ok, status and error are the ones the dispatcher's envelope has for
\* the same outcome (with the timeout of 5000 ms).
C16_PingClassifiesLikeDispatcher ==
    \A r \in PingReqs :
        LET q == reqs[r] IN
        /\ (q.pc = "done" /\ q.path = "http") =>
              Classification(q.responses[1])
                  = Classification(McpHttpEnvelope(q, Null))
        /\ (q.pc = "done" /\ q.path = "transport") =>
              \E err \in TransportErrors :
                  Classification(q.responses[1])
                      = Classification(McpCatchEnvelope(q, err))
        /\ (q.pc = "done" /\ q.path = "timeout") =>
              /\ Classification(q.responses[1])
                    = Classification(McpCatchEnvelope(q, AbortError))
              /\ q.responses[1].error
                    = Str("Request timed out after 5000ms")

\* C16 (amended): for an HTTP response with status s a probe's ok, status and
\* error are the dispatcher's (ok iff 200 <= s <= 299, status s, error null or
\* "HTTP <s>"); for a transport failure with message m it has ok=false, the
\* error m the dispatcher reports, and no status; for a timeout it has
\* ok=false, error "Ping timed out", and no status.
C16_PingClassification ==
    \A r \in PingReqs :
        LET q == reqs[r] IN
        /\ (q.pc = "done" /\ q.path = "http") =>
              /\ Classification(q.responses[1])
                    = Classification(McpHttpEnvelope(q, Null))
              /\ q.responses[1].status = Num(q.res.status)
        /\ (q.pc = "done" /\ q.path = "transport") =>
              /\ q.responses[1].ok = FALSE
              /\ q.responses[1].status = Undefined
              /\ \E err \in TransportErrors :
                    q.responses[1].error = McpCatchEnvelope(q, err).error
        /\ (q.pc = "done" /\ q.path = "timeout") =>
              /\ q.responses[1].ok = FALSE
              /\ q.responses[1].status = Undefined
              /\ q.responses[1].error = Str("Ping timed out")

\* A probe timed out after 5000 ms and reported "Ping timed out".
C16_Witness ==
    \E r \in PingReqs :
        /\ reqs[r].pc = "done"
        /\ reqs[r].path = "timeout"
        /\ now - reqs[r].startTime >= 5000
        /\ reqs[r].responses[1].error = Str("Ping timed out")

\* C17: a dispatch that passes the pre-flight checks has issued exactly one
\* network call, whatever happened to the call afterwards; a dispatch that
\* does not pass them has issued none.
C17_OneNetworkCall ==
    \A r \in McpReqs :
        Len(reqs[r].sent) = IF PassesPreflight(r) THEN 1 ELSE 0

\* A dispatch ended by a transport failure after one call.
C17_Witness ==
    \E r \in McpReqs :
        /\ reqs[r].pc = "done"
        /\ reqs[r].path = "transport"
        /\ Len(reqs[r].sent) = 1

\* C18: a dispatch makes no recording before it ends and none when it issued
\* no network call; a dispatch that issued one and has ended made exactly one
\* recording, under its endpoint identifier, with the ok and the duration_ms
\* of its envelope, and the counters of that endpoint count it.
C18_OneSamplePerCall ==
    \A r \in McpReqs :
        LET q == reqs[r] IN
        /\ (q.pc \notin Terminal \/ q.sent = <<>>) => RecordingsBy(r) = {}
        /\ (q.pc \in Terminal /\ q.sent # <<>>) =>
              /\ Cardinality(RecordingsBy(r)) = 1
              /\ \A i \in RecordingsBy(r) :
                    /\ log[i].endpoint = q.msg.endpoint.s
                    /\ log[i].success = q.responses[1].ok
                    /\ Num(log[i].duration_ms) = q.responses[1].duration_ms
                    /\ telemetry.calls[log[i].endpoint].total
                          = CountFor(log[i].endpoint, TRUE)
                              + CountFor(log[i].endpoint, FALSE)

\* A dispatch timed out after 30000 ms and its one recording is a failure of
\* that duration.
C18_Witness ==
    \E r \in McpReqs :
        /\ reqs[r].pc = "done"
        /\ reqs[r].path = "timeout"
        /\ reqs[r].responses[1].duration_ms = Num(30000)
        /\ \E i \in RecordingsBy(r) :
              log[i].duration_ms = 30000 /\ ~log[i].success

\* C19: a message of an unknown type, or no message, gets no response, raises
\* no error and makes no network call, and the step that receives it leaves
\* telemetry and the stored settings as they were.
C19_UnknownIgnored ==
    [][\A r \in DOMAIN reqs' :
          UnknownMessage(reqs'[r].msg) =>
              /\ reqs'[r].responses = <<>>
              /\ reqs'[r].sent = <<>>
              /\ reqs'[r].path = "none"
              /\ reqs'[r].pc = "ignored"
              /\ Touched(r) =>
                    (telemetry' = telemetry /\ log' = log /\ store' = store)]_vars

\* A null message was received after a dispatch had been recorded: it has
\* no response and telemetry still holds the recording.
C19_Witness ==
    \E r \in Indices :
        /\ reqs[r].msg = Null
        /\ reqs[r].pc = "ignored"
        /\ reqs[r].responses = <<>>
        /\ reqs[r].seen = 1
        /\ Len(log) = 1
        /\ telemetry.calls["local"].total = 1

\* C20: a step in which a call times out changes that call only: every other
\* request, in flight or not, is left as it was, with its own timer.
C20_TimeoutIsLocal ==
    [][\A r \in DOMAIN reqs :
          (reqs[r].path # "timeout" /\ reqs'[r].path = "timeout") =>
              \A o \in DOMAIN reqs : o # r => reqs'[o] = reqs[o]]_vars

\* One dispatch timed out while a second was in flight, and the second was
\* later answered from an HTTP 200 response.
C20_Witness ==
    \E r, o \in McpReqs :
        /\ r # o
        /\ reqs[r].path = "timeout"
        /\ reqs[o].path = "http"
        /\ reqs[o].responses[1].ok
        /\ reqs[o].startTime < reqs[r].startTime + reqs[r].responses[1].duration_ms.n
        /\ reqs[o].startTime + reqs[o].responses[1].duration_ms.n
              > reqs[r].startTime + reqs[r].responses[1].duration_ms.n

----------------------------------------------------------------------------
\* The dispatches to endpoint e that issued a network call and have ended.
CompletedTo(e) ==
    {r \in McpReqs : /\ reqs[r].pc \in Terminal
                     /\ reqs[r].sent # <<>>
                     /\ reqs[r].msg.endpoint = Str(e)}

\* The dispatches to endpoint e recorded before the first message.
EarlierTo(e) == {i \in DOMAIN log : log[i].by = 0 /\ log[i].endpoint = e}

\* C21: however the steps of overlapping dispatches interleave, when k
\* dispatches to an endpoint have completed (the earlier ones included) its
\* total is k, success + failed is k, success counts the ones answered ok,
\* and its window holds min(k, 100) samples.
C21_NoLostUpdate ==
    \A e \in {"local"} \cup DOMAIN telemetry.calls :
        LET k == Cardinality(EarlierTo(e)) + Cardinality(CompletedTo(e)) IN
        k > 0 =>
            /\ e \in DOMAIN telemetry.calls
            /\ telemetry.calls[e].total = k
            /\ telemetry.calls[e].success + telemetry.calls[e].failed = k
            /\ telemetry.calls[e].success = CountFor(e, TRUE)
            /\ Len(telemetry.latencies[e]) = Min(k, 100)

\* After 99 earlier dispatches two more overlapped (the second started
\* before the first was recorded) and both completed: 101 in total, 100
\* samples in the window.
C21_Witness ==
    /\ Cardinality(EarlierTo("local")) = 99
    /\ Cardinality(CompletedTo("local")) = 2
    /\ \A r \in CompletedTo("local") : reqs[r].seen = 99
    /\ telemetry.calls["local"].total = 101
    /\ Len(telemetry.latencies["local"]) = 100

----------------------------------------------------------------------------
\* The profile a handler record q names, first of that name in the settings
\* q read.
NamedProfileIn(q) ==
    LET e == q.msg.endpoint.s
        ps == IF q.keys.profiles.t = "array" THEN q.keys.profiles.a ELSE <<>>
        hits == {j \in DOMAIN ps : ps[j].name = Str(SubSeq(e, 9, Len(e)))}
    IN ps[CHOOSE j \in hits : \A h \in hits : j <= h]

\* The url and the token of the endpoint of q in the settings q read.
SettingsUrl(q) ==
    IF q.msg.endpoint.s = "local" THEN q.keys.localEndpoint
    ELSE IF q.msg.endpoint.s = "remote" THEN q.keys.remoteEndpoint
    ELSE NamedProfileIn(q).url

SettingsToken(q) ==
    IF q.msg.endpoint.s = "local" THEN q.keys.localAuthToken
    ELSE IF q.msg.endpoint.s = "remote" THEN q.keys.remoteAuthToken
    ELSE NamedProfileIn(q).auth_token

\* C22: the settings a dispatch or a probe reads are the ones stored at that
\* moment, whatever an earlier call read, and the url, the token and (for a
\* dispatch) the timeout it uses are the ones of the settings it read.
C22_SettingsReadAtCallTime ==
    [][\A r \in DOMAIN reqs' :
          LET q == reqs'[r] IN
          /\ (r \in DOMAIN reqs /\ reqs[r].keys = Undefined
                /\ q.keys # Undefined) => q.keys = store
          /\ q.sent # <<>> =>
                /\ q.keys # Undefined
                /\ q.sent[1].url = SettingsUrl(q)
                /\ q.sent[1].authorization =
                      IF Truthy(SettingsToken(q))
                      THEN Str("Bearer " \o SettingsToken(q).s)
                      ELSE Undefined
                /\ q.kind = "mcp" =>
                      q.timer.delay =
                         IF Truthy(q.keys.requestTimeoutMs)
                         THEN q.keys.requestTimeoutMs.n ELSE 30000]_vars

\* Two dispatches to "profile:X" read different settings, the second after
\* the options were saved again, and were sent to different urls.
C22_Witness ==
    \E r, o \in McpReqs :
        /\ r < o
        /\ reqs[r].msg.endpoint = Str("profile:X")
        /\ reqs[o].msg.endpoint = Str("profile:X")
        /\ reqs[r].sent # <<>>
        /\ reqs[o].sent # <<>>
        /\ reqs[r].keys # reqs[o].keys
        /\ reqs[o].keys = store
        /\ reqs[r].sent[1].url = Str("http://x1")
        /\ reqs[o].sent[1].url = Str("http://x2")

----------------------------------------------------------------------------
\* C23: while the network call of a dispatch has not completed (the response
\* is awaited, or its body is being read) the cancellation timer of the
\* dispatch is running, so that the call is aborted when the timeout passes.
C23_InFlightIsTimeBoxed ==
    \A r \in McpReqs :
        reqs[r].pc \in {"fetch", "body"} => reqs[r].timer.armed

----------------------------------------------------------------------------
\* C24: every reply sendPrompt received since the history was last cleared,
\* with ok=true or ok=false, added an entry to the history.
C24_EveryInteractionSaved ==
    Len(sidebar.added) = sidebar.answered

\* C25: the history holds at most 20 entries; they are the last min(n, 20)
\* of the n entries added since the last clear, newest first; after a clear
\* (n = 0) it is empty.
C25_HistoryIsLastTwenty ==
    /\ Len(sidebar.history) <= 20
    /\ Len(sidebar.history) = Min(Len(sidebar.added), 20)
    /\ \A i \in DOMAIN sidebar.history :
          sidebar.history[i] = sidebar.added[Len(sidebar.added) + 1 - i]

\* 22 entries were added since the last clear: the history holds the 20
\* newest, the one for the prompt "yo" first and the one for "hi" second.
C25_Witness ==
    /\ Len(sidebar.added) = 22
    /\ Len(sidebar.history) = 20
    /\ sidebar.history[1].prompt = "yo"
    /\ sidebar.history[2].prompt = "hi"
    /\ sidebar.history[20] = OlderEntry(3)

----------------------------------------------------------------------------
\* The outcome an ended call reports: Completed (the status of a response),
\* Aborted (a timeout message), Failed (another error), by the response alone.
Outcomes(q) ==
    LET resp == q.responses[1] IN
    {o \in {"Completed", "Aborted", "Failed"} :
        \/ o = "Completed" /\ resp.status.t = "number" /\ resp.status.n # 0
        \/ o = "Aborted" /\ q.path = "timeout"
        \/ o = "Failed" /\ q.path \in {"transport", "decode"}}

\* The part of C26 that is about the outcomes: a call that was issued and has
\* ended reports exactly one of the three, and a step never changes the
\* outcome, the response or the calls of an ended invocation.
C26_OneOutcomeForGood ==
    [][\A r \in DOMAIN reqs :
          (reqs[r].pc = "done" /\ reqs[r].sent # <<>>) =>
              /\ Cardinality(Outcomes(reqs[r])) = 1
              /\ reqs'[r].pc = "done"
              /\ reqs'[r].path = reqs[r].path
              /\ reqs'[r].responses = reqs[r].responses
              /\ reqs'[r].sent = reqs[r].sent]_vars

\* C26: every dispatch and every probe that issues a network call ends: it
\* leaves AwaitingResponse for one of the terminal outcomes.
C26_EveryCallEnds ==
    \A r \in ConcReqIds :
        (r \in DOMAIN reqs /\ reqs[r].sent # <<>>)
            ~> (r \in DOMAIN reqs /\ reqs[r].pc \in Terminal)

\* The same for probes alone.
C26_EveryPingEnds ==
    \A r \in ConcReqIds :
        (r \in DOMAIN reqs /\ reqs[r].kind = "ping" /\ reqs[r].sent # <<>>)
            ~> (r \in DOMAIN reqs /\ reqs[r].pc \in Terminal)

----------------------------------------------------------------------------
\* The endpoint identifiers a caller can name.
EndpointIds == {e.s : e \in {c \in EndpointChoices : c.t = "string"}}

\* What a resolution yields: the error message when there is one, the url
\* and the token otherwise.
ResolutionError(endpoint, found) ==
    IF found.error # Null THEN found.error
    ELSE IF UrlMissing(found.url) THEN NotConfiguredError(endpoint)
    ELSE Null

\* The handler of request r did what the resolution `found` says: on an
\* error it answered with that message and made no network call, otherwise
\* it called the url with the token.
ActedOn(r, found) ==
    LET q == reqs[r]
        error == ResolutionError(q.msg.endpoint.s, found)
    IN IF error # Null
       THEN /\ q.sent = <<>>
            /\ q.pc = "done"
            /\ q.responses[1].ok = FALSE
            /\ q.responses[1].error = error
       ELSE /\ Len(q.sent) = 1
            /\ q.sent[1].url = found.url
            /\ q.sent[1].authorization = AuthHeader(found.token)

\* C27: for every endpoint identifier and the settings of every state,
\* pingEndpoint and handleMcpRequest resolve to the same url and token or to
\* the same error message; and each handler that read the settings did what
\* the other handler's resolution of its endpoint says: the same url and
\* token called, or the same error message answered without a network call.
C27_SameResolution ==
    /\ \A e \in EndpointIds :
          LET a == McpResolve(e, store)
              b == PingResolve(e, store)
          IN /\ ResolutionError(e, a) = ResolutionError(e, b)
             /\ ResolutionError(e, a) = Null => a.url = b.url /\ a.token = b.token
    /\ \A r \in McpReqs :
          (HasKeys(r) /\ reqs[r].msg.endpoint.t = "string") =>
              ActedOn(r, PingResolve(reqs[r].msg.endpoint.s, reqs[r].keys))
    /\ \A r \in PingReqs :
          (HasKeys(r) /\ reqs[r].msg.endpoint.t = "string") =>
              ActedOn(r, McpResolve(reqs[r].msg.endpoint.s, reqs[r].keys))

\* A probe of "profile:x" read a list with profiles named X and none named
\* x: it answered "Profile 'x' not found", as the dispatcher resolves it,
\* and called nothing.
C27_Witness ==
    \E r \in PingReqs :
        /\ HasKeys(r)
        /\ reqs[r].msg.endpoint = Str("profile:x")
        /\ Matches(r, "X") # {}
        /\ McpResolve("profile:x", reqs[r].keys).error = Str("Profile 'x' not found")
        /\ reqs[r].responses = <<PingResult(FALSE, Str("profile:x"), Num(0),
                                           Undefined, Str("Profile 'x' not found"))>>
        /\ reqs[r].sent = <<>>

----------------------------------------------------------------------------
\* The token of the endpoint config request r resolved, taken from the
\* settings it read: the first profile of that name, or the local or remote
\* token.
ResolvedToken(r) ==
    IF NamesProfile(r)
    THEN LET i == CHOOSE j \in DOMAIN ProfilesRead(r) :
                      FirstMatch(r, ProfileNameOf(r), j)
         IN ProfilesRead(r)[i].auth_token
    ELSE IF reqs[r].msg.endpoint = Str("local")
         THEN reqs[r].keys.localAuthToken
         ELSE reqs[r].keys.remoteAuthToken

\* The config has a token: a non-empty string.
HasToken(token) == token.t = "string" /\ token.s # ""

\* C28: the network call of a dispatch is a POST with Content-Type
\* application/json; the call of a dispatch and the call of a ping carry
\* Authorization "Bearer <token>" when the resolved config has a token, and
\* no Authorization header when it has none.
C28_PostJsonBearerIffToken ==
    \A r \in McpReqs \cup PingReqs :
        reqs[r].sent # <<>> =>
            LET call == reqs[r].sent[1]
                token == ResolvedToken(r)
            IN /\ reqs[r].kind = "mcp" =>
                     /\ call.method = "POST"
                     /\ call.contentType = Str("application/json")
               /\ HasToken(token) =>
                     call.authorization = Str("Bearer " \o token.s)
               /\ ~HasToken(token) => call.authorization = Undefined

\* A dispatch to "profile:X" resolved a profile whose token is the empty
\* string and was sent as a POST without an Authorization header.
C28_Witness ==
    \E r \in McpReqs :
        /\ reqs[r].msg.endpoint = Str("profile:X")
        /\ reqs[r].sent # <<>>
        /\ ResolvedToken(r) = Str("")
        /\ reqs[r].sent[1].method = "POST"
        /\ reqs[r].sent[1].authorization = Undefined

----------------------------------------------------------------------------
\* Dispatches to the local endpoint and to a profile P, whose preamble is
\* empty or not and whose temperature is unset, 0 or 0.7, with and without a
\* page context in the message.

BodyPreambles == {Str(""), Str("be brief")}

BodyTemperatures == {Undefined, Num(0), Num(7)}

BodyForm(preamble, temperature) ==
    [ConcForm EXCEPT
        !.profiles = <<Profile("P", "http://p", Str("tp"), preamble, temperature)>>]

BodyContexts == {Undefined, Null, PageContext}

BodyMessages ==
    {Msg("mcpRequest", e, Str("hi"), c) :
        e \in {Str("local"), Str("profile:P")}, c \in BodyContexts}

BodyInit ==
    /\ \E preamble \in BodyPreambles, temperature \in BodyTemperatures :
          store = SavedSettings(BodyForm(preamble, temperature))
    /\ telemetry = EmptyTelemetry
    /\ log = <<>>
    /\ now = 0
    /\ ticks = 0
    /\ reqs = <<>>
    /\ sidebar = EmptySidebar
    /\ profileList = <<>>
    /\ popup = EmptyPopup
    /\ page = InjectedPage

BodyNext ==
    \/ \E m \in BodyMessages : OnMcpRequestUpTo(m, MaxReq)
    \/ \E r \in ReqIds : McpSettings(r)
    \/ \E r \in ReqIds : McpFetchResolved(r, 200, Str("text/plain"))
    \/ \E r \in ReqIds, body \in ConcBodies : McpBodyRead(r, body)

BodySpec == BodyInit /\ [][BodyNext]_vars

\* The profile request r resolved: the first of that name in the list read.
ResolvedProfile(r) ==
    ProfilesRead(r)[CHOOSE j \in DOMAIN ProfilesRead(r) :
                        FirstMatch(r, ProfileNameOf(r), j)]

\* A value that is there: neither undefined nor null.
Present(v) == v # Undefined /\ v # Null

\* C29: the body of a dispatch that was sent holds the message's prompt; it
\* holds the message's context when the message has one and no context
\* otherwise; for a profile it holds the preamble when the profile has a
\* non-empty one and the temperature when the profile has one, 0 included,
\* and neither otherwise; for local and remote it holds neither.
C29_BodyFields ==
    \A r \in McpReqs :
        reqs[r].sent # <<>> =>
            LET body == reqs[r].sent[1].body
                m == reqs[r].msg
            IN /\ body.prompt = m.prompt
               /\ Present(body.prompt)
               /\ body.context = (IF Present(m.context) THEN m.context
                                  ELSE Undefined)
               /\ IF NamesProfile(r)
                  THEN LET p == ResolvedProfile(r) IN
                       /\ body.preamble =
                             (IF p.default_preamble.t = "string"
                                 /\ p.default_preamble.s # ""
                              THEN p.default_preamble ELSE Undefined)
                       /\ body.temperature =
                             (IF Present(p.default_temperature)
                              THEN p.default_temperature ELSE Undefined)
                  ELSE /\ body.preamble = Undefined
                       /\ body.temperature = Undefined

\* A dispatch to "profile:P", whose temperature is 0 and whose preamble is
\* empty, with a null context: the body holds the prompt and temperature 0,
\* and nothing else.
C29_Witness ==
    \E r \in McpReqs :
        /\ reqs[r].msg.endpoint = Str("profile:P")
        /\ reqs[r].msg.context = Null
        /\ reqs[r].sent # <<>>
        /\ ResolvedProfile(r).default_temperature = Num(0)
        /\ reqs[r].sent[1].body =
              [prompt |-> Str("hi"), context |-> Undefined,
               preamble |-> Undefined, temperature |-> Num(0)]

----------------------------------------------------------------------------
\* C30: the timeout of a dispatch that read the settings is the stored
\* requestTimeoutMs when one is stored and 30000 ms when none is, and its
\* timer is started with that delay; the timer of a ping is started with
\* 5000 ms whatever is stored.
C30_TimeoutApplied ==
    /\ \A r \in McpReqs :
          HasKeys(r) =>
              /\ reqs[r].keys.requestTimeoutMs # Undefined =>
                    reqs[r].timeoutMs = reqs[r].keys.requestTimeoutMs
              /\ reqs[r].keys.requestTimeoutMs = Undefined =>
                    reqs[r].timeoutMs = Num(30000)
              /\ reqs[r].sent # <<>> =>
                    reqs[r].timer.delay = reqs[r].timeoutMs.n
    /\ \A r \in PingReqs :
          reqs[r].sent # <<>> => reqs[r].timer.delay = 5000

\* A dispatch that read a stored timeout of 50 ms started its timer with a
\* delay of 50 ms.
C30_Witness ==
    \E r \in McpReqs :
        /\ HasKeys(r)
        /\ reqs[r].keys.requestTimeoutMs = Num(50)
        /\ reqs[r].sent # <<>>
        /\ reqs[r].timer.delay = 50

----------------------------------------------------------------------------
\* The response of request r declares a JSON content-type.
DeclaresJson(r) ==
    /\ reqs[r].res.contentType.t = "string"
    /\ Includes(reqs[r].res.contentType.s, "application/json")

\* C31: when the body of a response was read, the envelope's data is the
\* parsed JSON value if the content-type declares application/json and the
\* body is a JSON document, and the body as text, unparsed, if the
\* content-type declares anything else or nothing; in both cases the envelope
\* carries the status, ok by the status, and error null when ok.
C31_DataByContentType ==
    \A r \in McpReqs :
        (reqs[r].pc = "done" /\ reqs[r].body # Undefined) =>
            LET e == reqs[r].responses[1]
                st == reqs[r].res.status
                decoded ==
                    /\ e.status = Num(st)
                    /\ e.ok = (200 <= st /\ st <= 299)
                    /\ e.ok => e.error = Null
            IN /\ (DeclaresJson(r) /\ reqs[r].body.json) =>
                     (e.data = Parsed(reqs[r].body) /\ decoded)
               /\ ~DeclaresJson(r) =>
                     (e.data = Str(reqs[r].body.text) /\ decoded)

\* HTTP 200 with a JSON content-type and the body {"text":"hi"} gave
\* ok=true, status=200, data the parsed value, error=null.
C31_Witness ==
    \E r \in McpReqs :
        /\ reqs[r].pc = "done"
        /\ reqs[r].res # Undefined
        /\ reqs[r].res.status = 200
        /\ DeclaresJson(r)
        /\ reqs[r].body = [text |-> "{\"text\":\"hi\"}", json |-> TRUE]
        /\ reqs[r].responses[1].ok = TRUE
        /\ reqs[r].responses[1].status = Num(200)
        /\ reqs[r].responses[1].data = Parsed(reqs[r].body)
        /\ reqs[r].responses[1].error = Null

----------------------------------------------------------------------------
\* A step of the core: the listener and the handlers of mcpRequest,
\* pingEndpoint and getTelemetry, with the network's and the timers' events.
CoreStep ==
    \/ \E m \in Messages : OnMcpRequest(m)
    \/ \E m \in Messages : OnGetTelemetry(m)
    \/ \E m \in Messages : OnPingEndpoint(m)
    \/ \E m \in Messages : OnOtherMessage(m)
    \/ \E r \in ReqIds : McpSettings(r)
    \/ \E r \in ReqIds, status \in StatusChoices,
          contentType \in ContentTypeChoices :
            McpFetchResolved(r, status, contentType)
    \/ \E r \in ReqIds, err \in TransportErrors : McpFetchRejected(r, err)
    \/ \E r \in ReqIds, body \in BodyChoices : McpBodyRead(r, body)
    \/ \E r \in ReqIds, err \in TransportErrors : McpBodyFailed(r, err)
    \/ \E r \in ReqIds : PingSettings(r)
    \/ \E r \in ReqIds, status \in StatusChoices : PingFetchResolved(r, status)
    \/ \E r \in ReqIds, err \in TransportErrors : PingFetchRejected(r, err)
    \/ \E r \in ReqIds : TimerFires(r)

\* C32: a step of the core leaves the settings store as it was: endpoints,
\* tokens, timeout and profiles are the same before and after.
C32_CoreNeverWritesStore ==
    [][CoreStep => store' = store]_vars

\* A dispatch went through to its envelope over saved settings, and the store
\* still holds the settings the dispatch read.
C32_Witness ==
    \E r \in McpReqs :
        /\ reqs[r].pc = "done"
        /\ reqs[r].path = "http"
        /\ store # EmptyStore
        /\ store = reqs[r].keys

----------------------------------------------------------------------------
\* The options page: profiles are added and deleted, and the list is saved,
\* loaded and cleared; no profile is renamed by hand.

ProfileIndices == 0..(MaxProfiles - 1)

ProfilesInit == Init

ProfilesNext ==
    \/ AddProfile
    \/ \E idx \in ProfileIndices : DeleteProfile(idx)
    \/ \E form \in FormChoices : SaveProfiles(form)
    \/ LoadProfiles
    \/ OptionsClearAll

ProfilesSpec == ProfilesInit /\ [][ProfilesNext]_vars

\* No two profiles of the list have the same name.
UniqueNames(list) ==
    \A i, j \in DOMAIN list : i # j => list[i].name # list[j].name

\* C33: no two profiles have the same name, in the list the options page
\* edits and in the list it stored.
C33_ProfileNamesUnique ==
    /\ UniqueNames(profileList)
    /\ UniqueNames(ProfilesOf(store))

----------------------------------------------------------------------------
\* Dispatches that are rejected before the network call, next to dispatches
\* that go through, in a service worker that recorded 0 or 2 calls before.

RejectMessages ==
    {Msg("mcpRequest", Str("local"), Str("hi"), Undefined),
     Msg("mcpRequest", Str("local"), Str(""), Undefined),
     Msg("mcpRequest", Str("remote"), Str("hi"), Undefined),
     Msg("mcpRequest", Str("profile:x"), Str("hi"), Undefined)}

RejectInit ==
    /\ store = SavedSettings(ConcForm)
    /\ \E k \in {0, 2} :
          /\ log = PrefillLog(k)
          /\ telemetry = Replay(EmptyTelemetry, PrefillLog(k), 1, k)
    /\ now = 0
    /\ ticks = 0
    /\ reqs = <<>>
    /\ sidebar = EmptySidebar
    /\ profileList = <<>>
    /\ popup = EmptyPopup
    /\ page = InjectedPage

RejectNext ==
    \/ \E m \in RejectMessages : OnMcpRequestUpTo(m, MaxConc)
    \/ \E r \in ConcReqIds : McpSettings(r)
    \/ \E r \in ConcReqIds, status \in ConcStatusChoices :
            McpFetchResolved(r, status, Str("text/plain"))
    \/ \E r \in ConcReqIds, err \in ConcErrors : McpFetchRejected(r, err)
    \/ \E r \in ConcReqIds, body \in ConcBodies : McpBodyRead(r, body)

RejectSpec == RejectInit /\ [][RejectNext]_vars

\* The exits of handleMcpRequest before the network call.
PreflightPaths == {"missingPrompt", "profileNotFound", "notConfigured"}

\* C34: a dispatch rejected for a missing prompt, an unknown profile or an
\* endpoint that is not configured is answered with ok=false, status=0,
\* duration_ms=0 and data=null, made no network call and no recording; so
\* telemetry is what the recordings of the other calls make it: no counter
\* changed, no sample was appended and no entry was created for it.
C34_RejectionLeavesTelemetry ==
    /\ \A r \in McpReqs :
          reqs[r].path \in PreflightPaths =>
              /\ reqs[r].responses[1].ok = FALSE
              /\ reqs[r].responses[1].status = Num(0)
              /\ reqs[r].responses[1].duration_ms = Num(0)
              /\ reqs[r].responses[1].data = Null
              /\ reqs[r].sent = <<>>
              /\ \A i \in DOMAIN log : log[i].by # r
    /\ telemetry = Replay(EmptyTelemetry, log, 1, Len(log))
    /\ (\A r \in McpReqs : reqs[r].path \in PreflightPaths \cup {"none"})
          => \E k \in {0, 2} :
                telemetry = Replay(EmptyTelemetry, PrefillLog(k), 1, k)

\* After two recorded calls to "local", a dispatch to "remote", which is not
\* configured, and one without a prompt were rejected: telemetry still holds
\* the two calls to "local" and no entry for "remote".
C34_Witness ==
    /\ \E r \in McpReqs : reqs[r].path = "notConfigured"
    /\ \E r \in McpReqs : reqs[r].path = "missingPrompt"
    /\ DOMAIN telemetry.calls = {"local"}
    /\ telemetry.calls["local"].total = 2

----------------------------------------------------------------------------
\* A telemetry value is well formed: the counter map and the latency map have
\* the same keys, and for each key total = success + failed, total >= 1 and
\* the window holds min(total, 100) samples.
WellFormed(tel) ==
    /\ DOMAIN tel.calls = DOMAIN tel.latencies
    /\ \A e \in DOMAIN tel.calls :
          /\ tel.calls[e].total = tel.calls[e].success + tel.calls[e].failed
          /\ tel.calls[e].total >= 1
          /\ Len(tel.latencies[e]) = Min(tel.calls[e].total, 100)

\* C35: telemetry is well formed in every state, and no step removes an
\* entry or lowers one of its counters.
C35_TelemetryInvariants ==
    /\ WellFormed(telemetry)
    /\ [][/\ WellFormed(telemetry')
          /\ \A e \in DOMAIN telemetry.calls :
                /\ e \in DOMAIN telemetry'.calls
                /\ telemetry'.calls[e].total >= telemetry.calls[e].total
                /\ telemetry'.calls[e].success >= telemetry.calls[e].success
                /\ telemetry'.calls[e].failed >= telemetry.calls[e].failed]_vars

\* "local" has 101 calls on its counters, failures among them, and a window
\* of 100 samples; "remote" has 1 call and 1 sample.
C35_Witness ==
    /\ DOMAIN telemetry.calls = {"local", "remote"}
    /\ telemetry.calls["local"].total = 101
    /\ telemetry.calls["local"].failed >= 1
    /\ Len(telemetry.latencies["local"]) = 100
    /\ telemetry.calls["remote"].total = 1
    /\ Len(telemetry.latencies["remote"]) = 1

----------------------------------------------------------------------------
\* The popup and the sidebar send prompts to the background, which has a
\* local endpoint and no remote one.

PopupInit == ConcInit

PopupNext ==
    \/ \E endpoint \in SideEndpoints, typed \in SideTyped :
            PopupSendPrompt(endpoint, typed)
    \/ \E endpoint \in SideEndpoints, typed \in SideTyped :
            SendPrompt(endpoint, "", typed)
    \/ \E r \in SideReqIds : McpSettings(r)
    \/ \E r \in SideReqIds, status \in ConcStatusChoices :
            McpFetchResolved(r, status, Str("text/plain"))
    \/ \E r \in SideReqIds, err \in ConcErrors : McpFetchRejected(r, err)
    \/ \E r \in SideReqIds, body \in ConcBodies : McpBodyRead(r, body)
    \/ \E r \in SideReqIds : PopupReply(r)
    \/ \E r \in SideReqIds : SendPromptReply(r)

PopupSpec == PopupInit /\ [][PopupNext]_vars

\* The surface `ui` (the popup or the sidebar) displays the reply of a
\* dispatch that succeeded: it shows the data of the envelope, not an error.
ShowsData(ui) ==
    (ui.shown # 0 /\ reqs[ui.shown].responses[1].ok) =>
        ui.respEl = Shown("data", DataText(reqs[ui.shown].responses[1].data))

\* C36: when the reply on display, in the popup or in the sidebar, is a
\* successful envelope (ok=true), the display is the envelope's data and not
\* an error message.
C36_SuccessIsDisplayed ==
    ShowsData(popup) /\ ShowsData(sidebar)

----------------------------------------------------------------------------
\* Dispatches and probes with endpoint identifiers that are and are not among
\* "local", "remote" and "profile:<name>", over saved settings.

IdentChoices == {"local", "remote", "Local", "foo"}

IdentMessages ==
    {Msg("mcpRequest", Str(e), Str("hi"), Undefined) : e \in IdentChoices}
    \cup {Msg("pingEndpoint", Str(e), Undefined, Undefined) : e \in IdentChoices}

IdentInit ==
    /\ \E form \in FormChoices : store = SavedSettings(form)
    /\ telemetry = EmptyTelemetry
    /\ log = <<>>
    /\ now = 0
    /\ ticks = 0
    /\ reqs = <<>>
    /\ sidebar = EmptySidebar
    /\ profileList = <<>>
    /\ popup = EmptyPopup
    /\ page = InjectedPage

IdentNext ==
    \/ \E m \in IdentMessages : OnMcpRequestUpTo(m, MaxConc)
    \/ \E m \in IdentMessages : OnPingEndpointUpTo(m, MaxConc)
    \/ \E r \in ConcReqIds : McpSettings(r)
    \/ \E r \in ConcReqIds : McpFetchResolved(r, 200, Str("text/plain"))
    \/ \E r \in ConcReqIds, body \in ConcBodies : McpBodyRead(r, body)
    \/ \E r \in ConcReqIds : PingSettings(r)
    \/ \E r \in ConcReqIds : PingFetchResolved(r, 200)

IdentSpec == IdentInit /\ [][IdentNext]_vars

\* The endpoint of request r is one of the identifiers that resolve.
KnownIdentifier(r) ==
    \/ reqs[r].msg.endpoint \in {Str("local"), Str("remote")}
    \/ NamesProfile(r)

\* C37: a dispatch or a probe whose endpoint identifier is none of "local",
\* "remote" and "profile:<name>" makes no network call: it is not sent to
\* the remote endpoint's url with the remote token.
C37_UnknownIdentifierNotRemote ==
    \A r \in McpReqs \cup PingReqs :
        (reqs[r].msg.endpoint.t = "string" /\ ~KnownIdentifier(r)) =>
            reqs[r].sent = <<>>

----------------------------------------------------------------------------
\* A page on which the content script runs, once or again, and its sidebar
\* is toggled and used; the background has a local endpoint.

KeyEvents ==
    [ctrlKey : BOOLEAN, metaKey : BOOLEAN, shiftKey : BOOLEAN,
     key : {"m", "M", "k"}]

PageInit ==
    /\ store = SavedSettings(ConcForm)
    /\ telemetry = EmptyTelemetry
    /\ log = <<>>
    /\ now = 0
    /\ ticks = 0
    /\ reqs = <<>>
    /\ sidebar = EmptySidebar
    /\ profileList = <<>>
    /\ popup = EmptyPopup
    /\ page = FreshPage

PageNext ==
    \/ RunContentScript
    \/ ToggleClick
    \/ \E ev \in KeyEvents : KeyDown(ev)
    \/ PopupOpenSidebar
    \/ \E typed \in SideTyped : page.injected /\ SendPrompt("local", "", typed)
    \/ \E r \in SideReqIds : McpSettings(r)
    \/ \E r \in SideReqIds : McpFetchResolved(r, 200, Str("text/plain"))
    \/ \E r \in SideReqIds, body \in ConcBodies : McpBodyRead(r, body)
    \/ \E r \in SideReqIds : SendPromptReply(r)

PageSpec == PageInit /\ [][PageNext]_vars

\* C38: however often the content script ran, the page holds at most one
\* sidebar and one set of listeners, exactly one once the script ran; and
\* the history was not reset: it still holds the entries added since the
\* last clear, newest first.
C38_InjectedOnce ==
    /\ page.sidebars <= 1
    /\ page.listeners <= 1
    /\ page.runs >= 1 => (page.injected /\ page.sidebars = 1
                           /\ page.listeners = 1)
    /\ Len(sidebar.history) = Min(Len(sidebar.added), MAX_HISTORY)
    /\ \A i \in DOMAIN sidebar.history :
          sidebar.history[i] = sidebar.added[Len(sidebar.added) + 1 - i]

\* The script ran a second time on a page whose sidebar was open and whose
\* history held an entry: one sidebar, still open, and the entry is there.
C38_Witness ==
    /\ page.runs = 2
    /\ page.historyAtRun >= 1
    /\ page.sidebars = 1
    /\ ~page.collapsed
    /\ Len(sidebar.history) >= page.historyAtRun

\* C39: on a page with the sidebar, the class, the glyph and aria-hidden
\* agree: collapsed with the right-pointing glyph and aria-hidden "true",
\* open with the left-pointing glyph and aria-hidden "false"; the sidebar is
\* collapsed before the first toggle, and so after every even number of
\* toggles; two more toggles give the same state again.
C39_ToggleStateAgrees ==
    page.injected =>
        /\ page.collapsed <=> page.ariaHidden = "true"
        /\ ~page.collapsed <=> page.ariaHidden = "false"
        /\ page.collapsed <=> page.glyph = "right"
        /\ ~page.collapsed <=> page.glyph = "left"
        /\ page.toggles = 0 => page.collapsed
        /\ page.collapsed <=> page.toggles % 2 = 0
        /\ toggleClick(toggleClick(page)) = page
        /\ toggleClick(page) # page

\* After three toggles the sidebar is open, with the left-pointing glyph and
\* aria-hidden "false".
C39_Witness ==
    /\ page.injected
    /\ page.toggles = 3
    /\ ~page.collapsed
    /\ page.glyph = "left"
    /\ page.ariaHidden = "false"

----------------------------------------------------------------------------
\* C40: a dispatch or a ping that issued its network call and has ended
\* (completed, timed out or failed in transport) has no armed timer left.
C40_NoTimerAfterEnd ==
    \A r \in McpReqs \cup PingReqs :
        (reqs[r].pc \in Terminal /\ reqs[r].sent # <<>>) =>
            ~reqs[r].timer.armed

====
